---- MODULE Spec2Model ----
(***************************************************************************)
(* A model of the till compiler's lexer engine (src/lexing/lexer.rs), of  *)
(* its scope and type checker (src/checking/checker.rs) and of its x86-64  *)
(* code generator (src/codegen/genelf64.rs).                               *)
(*                                                                         *)
(* The specifications of the module:                                       *)
(*   Spec          the Checker iterator: Checker::new, then next() calls   *)
(*                 that pull statements from the statement stream;         *)
(*   SpecScoping   the Checker's scope methods called one by one on a      *)
(*                 Checker built over an empty stream, as tests::scoping   *)
(*                 does;                                                   *)
(*   SpecBlock     check_block called on the scope stacks those methods    *)
(*                 build;                                                  *)
(*   SpecFunctions introduce_function and function_lookup called on such   *)
(*                 scope stacks;                                           *)
(*   SpecExpr      check_expr called on an expression of literals,         *)
(*                 variables and operators;                                *)
(*   SpecCall      check_expr called on a function call;                   *)
(*   SpecStmt      check_stmt called on an if or while statement;          *)
(*   SpecFrame     the checking and lookup methods called on a stack of    *)
(*                 scopes with definitions;                                *)
(*   SpecCodegen   Generator::execute on an IR vector, and the output      *)
(*                 assembled and run;                                      *)
(*   SpecComparison the instructions of a comparison run bit by bit;      *)
(*   SpecLexer     LexTokenIterator::next, one step per loop iteration;    *)
(*   SpecLexerLive the same, a call that has begun running to its end.     *)
(***************************************************************************)
EXTENDS Integers, Sequences, FiniteSets, TLC

(***************************************************************************)
(* Bounds of the model.                                                    *)
(***************************************************************************)
\* Statements pulled from the statement stream by one Checker.
MaxStmts == 2
\* Nodes (if/while statements) of one statement tree, nested blocks included.
MaxNodes == 3
\* Depth of the scope stack that begin_new_scope is called at directly.
MaxScopes == 3
\* Variable definitions introduced directly, over the whole stack.
MaxDefs == 2
\* Characters of the lexer's input stream.
MaxInput == 4
\* Function definitions introduced directly, over the whole stack.
MaxFunctionDefs == 2
\* Nodes of one expression tree handed to check_expr.
MaxExprNodes == 3
\* Instructions of one IR vector handed to the code generator.
MaxIr == 3
\* The largest id and literal counter whose labels are compared.
MaxId == 11
\* Calls of Checker::next that return None, counted up to this many.
MaxNones == 3
\* Bytes the stack pointer may be away from where main was entered with it
\* for the processor to go on.
MaxStack == 40

(***************************************************************************)
(* Option and Result.                                                      *)
(***************************************************************************)
None == [some |-> FALSE]
Some(v) == [some |-> TRUE, v |-> v]

(***************************************************************************)
(* checking::Type and the parsed expressions and statements the checker    *)
(* is given.  A literal's value is kept as its source text: the checker    *)
(* reads neither the value nor the position.                               *)
(***************************************************************************)
Type == {"Char", "Num", "Bool"}

Identifiers == {"x", "y"}

NumberLiteral(v) == [kind |-> "NumberLiteral", value |-> v]
BooleanLiteral(v) == [kind |-> "BooleanLiteral", value |-> v]
CharLiteral(v) == [kind |-> "CharLiteral", value |-> v]
Variable(id) == [kind |-> "Variable", identifier |-> id]
FunctionCall(id, args) == [kind |-> "FunctionCall", identifier |-> id, args |-> args]
Binary(k, l, r) == [kind |-> k, left |-> l, right |-> r]
Unary(k, e) == [kind |-> k, expr |-> e]

\* The conditions of the statements the model draws: one of type Bool, one
\* of another type, and one whose type depends on the scope stack.
Conditions == {BooleanLiteral("true"), NumberLiteral("1.5"), Variable("x")}

StmtKinds == {"If", "While"}

RECURSIVE StmtsOfSize(_), BlocksOfSize(_)
\* The if/while statements of exactly n nodes.
StmtsOfSize(n) ==
    IF n < 1 THEN {}
    ELSE {[kind |-> k, condition |-> c, block |-> b] :
              k \in StmtKinds, c \in Conditions, b \in BlocksOfSize(n - 1)}

\* The blocks (sequences of statements) of exactly m nodes.
BlocksOfSize(m) ==
    IF m = 0 THEN {<<>>}
    ELSE UNION {{<<s>> \o rest : s \in StmtsOfSize(k), rest \in BlocksOfSize(m - k)} :
                    k \in 1..m}

Statements == UNION {StmtsOfSize(n) : n \in 1..MaxNodes}
Blocks == UNION {BlocksOfSize(m) : m \in 0..(MaxNodes - 1)}

(***************************************************************************)
(* State.                                                                  *)
(***************************************************************************)
VARIABLES
    \* Checker
    scope_stack,     \* Checker::scope_stack, innermost scope last
    stmts,           \* Checker::stmts: the statements left in the stream
    item,            \* what the last next() call returned
    yielded,         \* "Ok" / "Err" of every item yielded so far
    trace,           \* scope-stack depths after each push and pop of the last call
    panicked,        \* a panic (failed assert!, unwrap of None) has unwound
    ret,             \* the last method called directly and what it returned
    input,           \* the expression or statement a direct call is given, or
                     \* the statement next() has pulled from the stream
    \* LexTokenIterator
    lxr,             \* LexTokenIterator::lxr: states, initial_state_key, ignored
    strm,            \* LexTokenIterator::strm: the characters and the position
    pc,              \* where the caller or next() stands
    current_key,     \* next(): let mut current_key
    lexeme,          \* next(): let mut lexeme
    unexpected_char, \* next(): let mut unexpected_char
    lex_item,        \* what the last next() call returned
    tokens,          \* every Some item yielded so far
    step,            \* what the last step of next() did, and on what
    \* GenerateElf64 and the machine its output runs on
    ir,              \* execute(): the instructions vector
    handled,         \* execute(): how many instructions the for loop has handled
    gen,             \* execute(): self, the GenerateElf64
    emitted_by,      \* for each line of each section of gen, the index in ir of
                     \* the instruction it was emitted for (0: for none)
    output,          \* what construct_output returned
    cpu              \* the processor and memory running the output

checkerVars == <<scope_stack, stmts, item, yielded, trace, panicked, ret, input>>
lexerVars == <<lxr, strm, pc, current_key, lexeme, unexpected_char, lex_item, tokens, step>>
codegenVars == <<ir, handled, gen, emitted_by, output, cpu>>

(***************************************************************************)
(* checker.rs: scopes and lookups.  A result that decides what comes next  *)
(* is handed to an operator as an argument, so that each call is written   *)
(* once.                                                                   *)
(***************************************************************************)
Ok == [ok |-> TRUE]
OkType(t) == [ok |-> TRUE, type |-> t]
OkDef(d) == [ok |-> TRUE, def |-> d]
Err(f) == [ok |-> FALSE, failure |-> f]

VariableNotInScope(ident) == [failure |-> "VariableNotInScope", identifier |-> ident]
FunctionNotInScope(ident, params) ==
    [failure |-> "FunctionNotInScope", identifier |-> ident, params |-> params]
VoidFunctionInExpr(ident, params) ==
    [failure |-> "VoidFunctionInExpr", identifier |-> ident, params |-> params]
UnexpectedType(expected, encountered) ==
    [failure |-> "UnexpectedType", expected |-> expected, encountered |-> encountered]
\* unimplemented!(): not a Failure, the call panics.
Unimplemented == [failure |-> "unimplemented"]

Scope(variables, functions) == [variable_defs |-> variables, function_defs |-> functions]
VariableDef(ident, t) == [identifier |-> ident, var_type |-> t]
FunctionDef(ident, params, rt) ==
    [identifier |-> ident, parameter_types |-> params, return_type |-> rt]

\* The Checker a method works on: its scope stack, and the depths the stack
\* has gone through since the call began.
Checker(stack, depths) == [scope_stack |-> stack, trace |-> depths]

begin_new_scope(self) ==
    Checker(Append(self.scope_stack, Scope(<<>>, <<>>)),
            Append(self.trace, Len(self.scope_stack) + 1))

\* end_scope that hands the definitions of the ended scope to the enclosing one.
end_scope_keeping_definitions(self) ==
    LET stack == self.scope_stack
        n == Len(stack)
    IN  IF n = 0 THEN Checker(<<>>, Append(self.trace, 0))
        ELSE IF n = 1 THEN Checker(<<>>, Append(self.trace, 0))
        ELSE Checker([i \in 1..(n - 1) |->
                         IF i = n - 1
                         THEN Scope(stack[i].variable_defs \o stack[n].variable_defs,
                                    stack[i].function_defs \o stack[n].function_defs)
                         ELSE stack[i]],
                     Append(self.trace, n - 1))

\* end_scope that finds a scope to end even on an empty stack, and so
\* leaves the one below it.
end_scope_below_empty(self) ==
    IF self.scope_stack = <<>> THEN Checker(<<Scope(<<>>, <<>>)>>, Append(self.trace, 1))
    ELSE Checker(SubSeq(self.scope_stack, 1, Len(self.scope_stack) - 1),
                 Append(self.trace, Len(self.scope_stack) - 1))

\* Vec::pop: nothing happens on an empty vector.
end_scope(self) ==
    IF self.scope_stack = <<>> THEN Checker(<<>>, Append(self.trace, 0))
    ELSE Checker(SubSeq(self.scope_stack, 1, Len(self.scope_stack) - 1),
                 Append(self.trace, Len(self.scope_stack) - 1))

RECURSIVE find_variable_def_from(_, _, _)
find_variable_def_from(defs, i, ident) ==
    IF i > Len(defs) THEN None
    ELSE IF defs[i].identifier = ident THEN Some(defs[i])
    ELSE find_variable_def_from(defs, i + 1, ident)

find_variable_def(scope, ident) == find_variable_def_from(scope.variable_defs, 1, ident)

RECURSIVE find_function_def_from(_, _, _, _)
find_function_def_from(defs, i, ident, params) ==
    IF i > Len(defs) THEN None
    ELSE IF defs[i].identifier = ident /\ defs[i].parameter_types = params THEN Some(defs[i])
    ELSE find_function_def_from(defs, i + 1, ident, params)

\* find_function_def that compares the identifier alone.
find_function_def_by_identifier(scope, ident, params) ==
    LET named == {i \in DOMAIN scope.function_defs :
                     scope.function_defs[i].identifier = ident}
    IN  IF named = {} THEN None
        ELSE Some(scope.function_defs[CHOOSE i \in named : \A k \in named : i <= k])

find_function_def(scope, ident, params) ==
    find_function_def_from(scope.function_defs, 1, ident, params)

\* variable_lookup without .rev(): the outermost scope has priority.
RECURSIVE variable_lookup_outermost_first_from(_, _, _)
variable_lookup_outermost_first_from(stack, i, ident) ==
    IF i > Len(stack) THEN Err(VariableNotInScope(ident))
    ELSE LET found == find_variable_def(stack[i], ident) IN
         IF found.some THEN OkDef(found.v)
         ELSE variable_lookup_outermost_first_from(stack, i + 1, ident)

variable_lookup_outermost_first(stack, ident) ==
    variable_lookup_outermost_first_from(stack, 1, ident)

\* for scope in self.scope_stack.iter().rev(): i runs from Len(stack) down to 1.
RECURSIVE variable_lookup_from(_, _, _)
variable_lookup_from(stack, i, ident) ==
    IF i < 1 THEN Err(VariableNotInScope(ident))
    ELSE LET found == find_variable_def(stack[i], ident) IN
         IF found.some THEN OkDef(found.v)
         ELSE variable_lookup_from(stack, i - 1, ident)

variable_lookup(stack, ident) == variable_lookup_from(stack, Len(stack), ident)

RECURSIVE function_lookup_from(_, _, _, _)
function_lookup_from(stack, i, ident, params) ==
    IF i < 1 THEN Err(FunctionNotInScope(ident, params))
    ELSE LET found == find_function_def(stack[i], ident, params) IN
         IF found.some THEN OkDef(found.v)
         ELSE function_lookup_from(stack, i - 1, ident, params)

\* function_lookup without .rev(): the outermost scope has priority.
function_lookup_outermost_first(stack, ident, params) ==
    LET holding == {i \in DOMAIN stack : find_function_def(stack[i], ident, params).some}
    IN  IF holding = {} THEN Err(FunctionNotInScope(ident, params))
        ELSE OkDef(find_function_def(stack[CHOOSE i \in holding : \A k \in holding : i <= k],
                                     ident, params).v)

function_lookup(stack, ident, params) ==
    function_lookup_from(stack, Len(stack), ident, params)

\* get_inner_scope().variable_defs.push(..); the caller has checked that the
\* stack is not empty (unwrap panics otherwise).
introduce_variable(stack, ident, var_type) ==
    [stack EXCEPT ![Len(stack)].variable_defs = Append(@, VariableDef(ident, var_type))]

introduce_function(stack, ident, params, return_type) ==
    [stack EXCEPT ![Len(stack)].function_defs =
                      Append(@, FunctionDef(ident, params, return_type))]

(***************************************************************************)
(* checker.rs: expression typing.  `?` hands an Err back unchanged.        *)
(***************************************************************************)
RECURSIVE check_expr(_, _)

\* expect_type that takes an expression of any type for the expected one.
expect_type_of_any(expr_type, expected) ==
    IF ~expr_type.ok THEN expr_type ELSE Ok

\* if expr_type == expected { Ok(()) } else { Err(UnexpectedType { .. }) }
expect_type(expr_type, expected) ==
    IF ~expr_type.ok THEN expr_type
    ELSE IF expr_type.type = expected THEN Ok
    ELSE Err(UnexpectedType(expected, expr_type.type))

expect_expr_type(stack, expr, expected) == expect_type(check_expr(stack, expr), expected)

\* for arg in args { arg_types.push(self.check_expr(arg)?) }
RECURSIVE check_args(_, _, _, _)
push_arg_type(stack, args, i, arg_types, arg) ==
    IF ~arg.ok THEN arg
    ELSE check_args(stack, args, i + 1, Append(arg_types, arg.type))

check_args(stack, args, i, arg_types) ==
    IF i > Len(args) THEN [ok |-> TRUE, types |-> arg_types]
    ELSE push_arg_type(stack, args, i, arg_types, check_expr(stack, args[i]))

\* Ok(definition.var_type.clone())
variable_type(definition) ==
    IF ~definition.ok THEN definition ELSE OkType(definition.def.var_type)

\* match &definition.return_type { Some(..) => Ok(..), None => Err(VoidFunctionInExpr) }
return_type(definition, ident, arg_types) ==
    IF ~definition.ok THEN definition
    ELSE IF definition.def.return_type.some THEN OkType(definition.def.return_type.v)
    ELSE Err(VoidFunctionInExpr(ident, arg_types))

call_type(stack, ident, args) ==
    IF ~args.ok THEN args
    ELSE return_type(function_lookup(stack, ident, args.types), ident, args.types)

\* both_expected with the right operand's failure returned before the left's.
both_expected_right_first(left, right, result_type) ==
    IF ~right.ok THEN right
    ELSE IF ~left.ok THEN left
    ELSE OkType(result_type)

\* expect_expr_type(left, Num)?; expect_expr_type(right, Num)?; Ok(result_type)
both_expected(left, right, result_type) ==
    IF ~left.ok THEN left
    ELSE IF ~right.ok THEN right
    ELSE OkType(result_type)

\* expect_expr_type(expr, ..)?; Ok(result_type)
operand_expected(operand, result_type) ==
    IF ~operand.ok THEN operand ELSE OkType(result_type)

\* same_types with expected and encountered exchanged.
same_types_swapped(left_type, right_type) ==
    IF ~left_type.ok THEN left_type
    ELSE IF ~right_type.ok THEN right_type
    ELSE IF left_type.type = right_type.type THEN OkType("Bool")
    ELSE Err(UnexpectedType(right_type.type, left_type.type))

\* if left_type == right_type { Ok(Bool) } else { Err(UnexpectedType { .. }) }
same_types(left_type, right_type) ==
    IF ~left_type.ok THEN left_type
    ELSE IF ~right_type.ok THEN right_type
    ELSE IF left_type.type = right_type.type THEN OkType("Bool")
    ELSE Err(UnexpectedType(left_type.type, right_type.type))

check_expr(stack, expr) ==
    CASE expr.kind = "Variable" ->
            variable_type(variable_lookup(stack, expr.identifier))
      [] expr.kind = "FunctionCall" ->
            call_type(stack, expr.identifier, check_args(stack, expr.args, 1, <<>>))
      [] expr.kind \in {"Add", "Subtract", "Multiply", "Divide"} ->
            both_expected(expect_expr_type(stack, expr.left, "Num"),
                          expect_expr_type(stack, expr.right, "Num"), "Num")
      [] expr.kind \in {"GreaterThan", "LessThan"} ->
            both_expected(expect_expr_type(stack, expr.left, "Num"),
                          expect_expr_type(stack, expr.right, "Num"), "Bool")
      [] expr.kind = "Equal" ->
            same_types(check_expr(stack, expr.left), check_expr(stack, expr.right))
      [] expr.kind = "BooleanNot" ->
            operand_expected(expect_expr_type(stack, expr.expr, "Bool"), "Bool")
      [] expr.kind = "UnaryMinus" ->
            operand_expected(expect_expr_type(stack, expr.expr, "Num"), "Num")
      [] expr.kind = "NumberLiteral" -> OkType("Num")
      [] expr.kind = "BooleanLiteral" -> OkType("Bool")
      [] expr.kind = "CharLiteral" -> OkType("Char")
      [] OTHER -> Err(Unimplemented)   \* Array, StringLiteral

(***************************************************************************)
(* checker.rs: statements and blocks.  Each operator returns its Result    *)
(* and the Checker it leaves.                                              *)
(***************************************************************************)
Outcome(result, self) == [result |-> result, self |-> self]

RECURSIVE check_stmt(_, _), check_block_stmts(_, _, _)

\* self.check_stmt(stmt)? inside the loop of check_block
next_block_stmt(checked, block, i) ==
    IF ~checked.result.ok THEN checked
    ELSE check_block_stmts(checked.self, block, i + 1)

\* for stmt in block { self.check_stmt(stmt)? }, from the i-th statement on.
check_block_stmts(self, block, i) ==
    IF i > Len(block) THEN Outcome(Ok, self)
    ELSE next_block_stmt(check_stmt(self, block[i]), block, i)

\* leave_block that returns without its end_scope call.
leave_block_leaving_the_scope(body) == body

\* self.end_scope(); Ok(None), reached only if no `?` of the loop returned.
leave_block(body) ==
    IF ~body.result.ok THEN body
    ELSE Outcome(Ok, end_scope(body.self))

\* check_block with its end_scope call left out.
check_block_never_ends_scope(self, block) ==
    check_block_stmts(begin_new_scope(self), block, 1)

check_block(self, block) ==
    leave_block(check_block_stmts(begin_new_scope(self), block, 1))

\* check_stmt that checks the block whatever the condition is.
check_block_whatever_the_condition(condition, self, block) == check_block(self, block)

\* self.expect_expr_type(condition, Bool)?; self.check_block(block)?; Ok(())
check_condition_then_block(condition, self, block) ==
    IF ~condition.ok THEN Outcome(condition, self)
    ELSE check_block(self, block)

check_stmt(self, stmt) ==
    IF stmt.kind \in {"If", "While"}
    THEN check_condition_then_block(
             expect_expr_type(self.scope_stack, stmt.condition, "Bool"), self, stmt.block)
    ELSE Outcome(Err(Unimplemented), self)

(***************************************************************************)
(* The Checker iterator.                                                   *)
(***************************************************************************)
NotCalled == [returned |-> "nothing"]
ItemNone == [returned |-> "None"]
ItemOk(stmt) == [returned |-> "Some", ok |-> TRUE, stmt |-> stmt]
ItemErr(f) == [returned |-> "Some", ok |-> FALSE, failure |-> f]

NoRet == [op |-> "none"]

\* No argument is drawn: the calls of the run take none, or pick their own.
NoInput == [kind |-> "none"]

\* No lexer takes part in a run of the checker.
LexerUnused ==
    /\ lxr = [initial_state_key |-> "none"]
    /\ strm = [chars |-> <<>>, pos |-> 0]
    /\ pc = "unused"
    /\ current_key = "none"
    /\ lexeme = <<>>
    /\ unexpected_char = None
    /\ lex_item = [returned |-> "nothing"]
    /\ tokens = <<>>
    /\ step = [kind |-> "none"]

\* No code is generated in a run of the checker or of the lexer.
GeneratorUnused ==
    /\ ir = <<>>
    /\ handled = 0
    /\ gen = [text_section |-> <<>>]
    /\ emitted_by = [text_section |-> <<>>]
    /\ output = None
    /\ cpu = [status |-> "off"]

\* The Checker as a call finds it.
Self == Checker(scope_stack, <<>>)

\* Checker::new(stmts): the program scope is pushed.
CheckerNew(n) ==
    /\ scope_stack = begin_new_scope(Checker(<<>>, <<>>)).scope_stack
    /\ stmts = n
    /\ item = NotCalled
    /\ yielded = <<>>
    /\ trace = <<>>
    /\ panicked = FALSE
    /\ ret = NoRet
    /\ input = NoInput
    /\ LexerUnused
    /\ GeneratorUnused

\* Some(stmt) of self.stmts.next()
Pulled(stmt) == [kind |-> "pulled", stmt |-> stmt]

\* Checker::next, the stream yields Some(stmt).
NextStatement ==
    /\ ~panicked
    /\ stmts > 0
    /\ \E stmt \in Statements : \E checked \in {check_stmt(Self, stmt)} :
          /\ stmts' = stmts - 1
          /\ input' = Pulled(stmt)
          /\ scope_stack' = checked.self.scope_stack
          /\ trace' = checked.self.trace
          /\ IF ~checked.result.ok /\ checked.result.failure = Unimplemented
             THEN panicked' = TRUE /\ UNCHANGED <<item, yielded>>
             ELSE /\ item' = IF checked.result.ok THEN ItemOk(stmt)
                             ELSE ItemErr(checked.result.failure)
                  /\ yielded' = Append(yielded, IF checked.result.ok THEN "Ok" ELSE "Err")
                  /\ UNCHANGED panicked
    /\ UNCHANGED ret
    /\ UNCHANGED <<lexerVars, codegenVars>>

\* The calls of next() that have returned None so far.
ReturnedNone(n) == [op |-> "next", nones |-> n]

NonesReturned == IF ret.op = "next" THEN ret.nones ELSE 0

\* Checker::next, the stream yields None: the program scope is ended and the
\* stack asserted empty.
NextEndOfInput ==
    /\ ~panicked
    /\ stmts = 0
    /\ \E ended \in {end_scope(Self)} :
          /\ scope_stack' = ended.scope_stack
          /\ trace' = ended.trace
          /\ panicked' = (ended.scope_stack # <<>>)  \* assert!(self.scope_stack.is_empty())
          /\ item' = IF ended.scope_stack # <<>> THEN item ELSE ItemNone
          /\ ret' = IF ended.scope_stack # <<>> THEN ret ELSE ReturnedNone(NonesReturned + 1)
    /\ NonesReturned < MaxNones
    /\ UNCHANGED <<stmts, yielded>>
    /\ UNCHANGED <<input, lexerVars, codegenVars>>

(***************************************************************************)
(* The Checker's methods called directly (tests::scoping).                 *)
(***************************************************************************)
RECURSIVE DefCountFrom(_, _)
DefCountFrom(stack, i) ==
    IF i > Len(stack) THEN 0
    ELSE Len(stack[i].variable_defs) + DefCountFrom(stack, i + 1)

DefCount(stack) == DefCountFrom(stack, 1)

BeginNewScope ==
    /\ ~panicked
    /\ Len(scope_stack) < MaxScopes
    /\ scope_stack' = begin_new_scope(Self).scope_stack
    /\ ret' = [op |-> "begin_new_scope"]
    /\ UNCHANGED <<stmts, item, yielded, trace, panicked>>
    /\ UNCHANGED <<input, lexerVars, codegenVars>>

EndScope ==
    /\ ~panicked
    /\ scope_stack' = end_scope(Self).scope_stack
    /\ ret' = [op |-> "end_scope",
               popped |-> IF scope_stack = <<>> THEN None
                          ELSE Some(scope_stack[Len(scope_stack)])]
    /\ UNCHANGED <<stmts, item, yielded, trace, panicked>>
    /\ UNCHANGED <<input, lexerVars, codegenVars>>

\* get_inner_scope unwraps last_mut(): a panic on an empty stack.
IntroduceVariable ==
    /\ ~panicked
    /\ DefCount(scope_stack) < MaxDefs
    /\ \E ident \in Identifiers, var_type \in Type :
          /\ ret' = [op |-> "introduce_variable", identifier |-> ident, var_type |-> var_type]
          /\ IF scope_stack = <<>>
             THEN panicked' = TRUE /\ UNCHANGED scope_stack
             ELSE /\ scope_stack' = introduce_variable(scope_stack, ident, var_type)
                  /\ UNCHANGED panicked
    /\ UNCHANGED <<stmts, item, yielded, trace>>
    /\ UNCHANGED <<input, lexerVars, codegenVars>>

VariableLookup ==
    /\ ~panicked
    /\ \E ident \in Identifiers :
          ret' = [op |-> "variable_lookup", identifier |-> ident,
                  result |-> variable_lookup(scope_stack, ident)]
    /\ UNCHANGED <<scope_stack, stmts, item, yielded, trace, panicked>>
    /\ UNCHANGED <<input, lexerVars, codegenVars>>

CheckBlock ==
    /\ ~panicked
    /\ Len(scope_stack) < MaxScopes
    /\ \E block \in Blocks : \E checked \in {check_block(Self, block)} :
          /\ scope_stack' = checked.self.scope_stack
          /\ ret' = [op |-> "check_block", entry_depth |-> Len(scope_stack),
                     ok |-> checked.result.ok]
    /\ UNCHANGED <<stmts, item, yielded, trace, panicked>>
    /\ UNCHANGED <<input, lexerVars, codegenVars>>

(***************************************************************************)
(* The Checker's function methods called directly (tests::scoping).        *)
(***************************************************************************)
FunctionIdentifiers == {"f", "g"}

\* The parameter-type vectors functions are introduced and looked up with:
\* of different lengths, and two that differ in the order alone.
ParameterTypes == {<<>>, <<"Num">>, <<"Num", "Char">>, <<"Char", "Num">>}

\* return_type: Option<Type>
ReturnTypes == {None, Some("Num"), Some("Bool")}

RECURSIVE FunctionDefCountFrom(_, _)
FunctionDefCountFrom(stack, i) ==
    IF i > Len(stack) THEN 0
    ELSE Len(stack[i].function_defs) + FunctionDefCountFrom(stack, i + 1)

FunctionDefCount(stack) == FunctionDefCountFrom(stack, 1)

\* get_inner_scope unwraps last_mut(): a panic on an empty stack.
IntroduceFunction ==
    /\ ~panicked
    /\ FunctionDefCount(scope_stack) < MaxFunctionDefs
    /\ \E ident \in FunctionIdentifiers, params \in ParameterTypes, rt \in ReturnTypes :
          /\ ret' = [op |-> "introduce_function", identifier |-> ident,
                     params |-> params, return_type |-> rt]
          /\ IF scope_stack = <<>>
             THEN panicked' = TRUE /\ UNCHANGED scope_stack
             ELSE /\ scope_stack' = introduce_function(scope_stack, ident, params, rt)
                  /\ UNCHANGED panicked
    /\ UNCHANGED <<stmts, item, yielded, trace>>
    /\ UNCHANGED <<input, lexerVars, codegenVars>>

FunctionLookup ==
    /\ ~panicked
    /\ \E ident \in FunctionIdentifiers, params \in ParameterTypes :
          ret' = [op |-> "function_lookup", identifier |-> ident, params |-> params,
                  result |-> function_lookup(scope_stack, ident, params)]
    /\ UNCHANGED <<scope_stack, stmts, item, yielded, trace, panicked>>
    /\ UNCHANGED <<input, lexerVars, codegenVars>>

(***************************************************************************)
(* check_expr called directly (tests::check_exprs) on expressions of       *)
(* literals, variables and operators.                                      *)
(***************************************************************************)
ArithmeticKinds == {"Add", "Subtract", "Multiply", "Divide"}
ComparisonKinds == {"GreaterThan", "LessThan"}
BinaryKinds == ArithmeticKinds \cup ComparisonKinds \cup {"Equal"}
UnaryKinds == {"BooleanNot", "UnaryMinus"}

Literals == {NumberLiteral("1.5"), BooleanLiteral("true"), CharLiteral("x")}

RECURSIVE ExprsOfSize(_)
\* The expressions of exactly n nodes.
ExprsOfSize(n) ==
    IF n < 1 THEN {}
    ELSE IF n = 1 THEN Literals \cup {Variable(id) : id \in Identifiers}
    ELSE {Unary(k, e) : k \in UnaryKinds, e \in ExprsOfSize(n - 1)}
         \cup UNION {{Binary(k, l, r) : k \in BinaryKinds, l \in ExprsOfSize(m),
                                        r \in ExprsOfSize(n - 1 - m)} :
                         m \in 1..(n - 2)}

Expressions == UNION {ExprsOfSize(n) : n \in 1..MaxExprNodes}

\* The expression of the run, drawn when the Checker is made.
ExprInput(expr) == [kind |-> "expr", expr |-> expr]

\* Checker::new, and the expression check_expr will be called on.
CheckerNewFor(an_input) ==
    /\ scope_stack = begin_new_scope(Checker(<<>>, <<>>)).scope_stack
    /\ stmts = 0
    /\ item = NotCalled
    /\ yielded = <<>>
    /\ trace = <<>>
    /\ panicked = FALSE
    /\ ret = NoRet
    /\ input = an_input
    /\ LexerUnused
    /\ GeneratorUnused

CheckExpr ==
    /\ ~panicked
    /\ input.kind = "expr"
    /\ ret' = [op |-> "check_expr", expr |-> input.expr,
               result |-> check_expr(scope_stack, input.expr)]
    /\ UNCHANGED <<scope_stack, stmts, item, yielded, trace, panicked>>
    /\ UNCHANGED <<input, lexerVars, codegenVars>>

\* expect_expr_type(&expr, expected)
ExpectExprType ==
    /\ ~panicked
    /\ input.kind = "expr"
    /\ \E expected \in Type :
          ret' = [op |-> "expect_expr_type", expr |-> input.expr, expected |-> expected,
                  result |-> expect_expr_type(scope_stack, input.expr, expected)]
    /\ UNCHANGED <<scope_stack, stmts, item, yielded, trace, panicked>>
    /\ UNCHANGED <<input, lexerVars, codegenVars>>

(***************************************************************************)
(* check_expr called directly on function calls.                           *)
(***************************************************************************)
\* The arguments of the calls: of two types, and two that fail to type,
\* each in its own way (no variable is in scope in these runs).
CallArguments ==
    {NumberLiteral("1.5"), CharLiteral("x"), Variable("x"), FunctionCall("g", <<>>)}

ArgumentLists == UNION {[1..n -> CallArguments] : n \in 0..2}

Calls == {FunctionCall(id, args) : id \in FunctionIdentifiers, args \in ArgumentLists}

(***************************************************************************)
(* check_stmt called directly.                                             *)
(***************************************************************************)
\* The statement of the run, drawn when the Checker is made.
StmtInput(stmt) == [kind |-> "stmt", stmt |-> stmt]

\* check_stmt(&stmt); unimplemented!() panics.
CheckStmt ==
    /\ ~panicked
    /\ input.kind = "stmt"
    /\ Len(scope_stack) < MaxScopes
    /\ \E checked \in {check_stmt(Self, input.stmt)} :
          /\ scope_stack' = checked.self.scope_stack
          /\ trace' = checked.self.trace
          /\ ret' = [op |-> "check_stmt", stmt |-> input.stmt, result |-> checked.result,
                     entry_depth |-> Len(scope_stack)]
          /\ panicked' = (~checked.result.ok /\ checked.result.failure = Unimplemented)
    /\ UNCHANGED <<stmts, item, yielded>>
    /\ UNCHANGED <<input, lexerVars, codegenVars>>

(***************************************************************************)
(* genelf64.rs: the instructions handed to the generator, as its match     *)
(* arms name them, and the assembly instructions it emits.  A label is the *)
(* sequence of its characters.                                             *)
(***************************************************************************)
ValueNum(num_val) == [value |-> "Num", num |-> num_val]
ValueVariable(var_id) == [value |-> "Variable", id |-> var_id]
ValueChar(chr_val) == [value |-> "Char", code |-> chr_val]
ValueBool(bool_val) == [value |-> "Bool", bool |-> bool_val]

IrAllocate(id) == [ir |-> "Allocate", id |-> id]
IrPush(val) == [ir |-> "Push", val |-> val]
IrStore(id) == [ir |-> "Store", id |-> id]
IrParameter(store_in, param_number) ==
    [ir |-> "Parameter", store_in |-> store_in, param_number |-> param_number]
IrLabel(id) == [ir |-> "Label", id |-> id]
IrFunction(id) == [ir |-> "Function", id |-> id]
IrCallExpectingVoid(id) == [ir |-> "CallExpectingVoid", id |-> id]
IrCallExpectingValue(id) == [ir |-> "CallExpectingValue", id |-> id]
IrDisplay(value_type, line_number) ==
    [ir |-> "Display", value_type |-> value_type, line_number |-> line_number]
IrJump(id) == [ir |-> "Jump", id |-> id]
IrJumpIfTrue(id) == [ir |-> "JumpIfTrue", id |-> id]
IrJumpIfFalse(id) == [ir |-> "JumpIfFalse", id |-> id]
\* ReturnVoid, ReturnValue, Equals, Add, Subtract, Multiply, Divide,
\* GreaterThan, LessThan, Not
IrOp(name) == [ir |-> name]

\* enum Val, enum Reg (by the name of the variant), enum Oprand
ValInt(x) == [val |-> "Int", int |-> x]
ValFloat(x) == [val |-> "Float", float |-> x]

OprandLabel(x) == [oprand |-> "Label", label |-> x]
OprandValue(x) == [oprand |-> "Value", val |-> x]
Register(x) == [oprand |-> "Register", reg |-> x]
Address(x) == [oprand |-> "Address", of |-> x]
AddressDisplaced(x, displacement) ==
    [oprand |-> "AddressDisplaced", of |-> x, displacement |-> displacement]

\* enum Instruction
Comment(x) == [op |-> "Comment", text |-> x]
Section(x) == [op |-> "Section", name |-> x]
Extern(x) == [op |-> "Extern", label |-> x]
Global(x) == [op |-> "Global", label |-> x]
Label(x) == [op |-> "Label", label |-> x]
Declare(x) == [op |-> "Declare", val |-> x]
DeclareString(x) == [op |-> "DeclareString", string |-> x]
Mov(dest, src) == [op |-> "Mov", dest |-> dest, src |-> src]
Add(dest, src) == [op |-> "Add", dest |-> dest, src |-> src]
Sub(dest, src) == [op |-> "Sub", dest |-> dest, src |-> src]
Push(x) == [op |-> "Push", oprand |-> x]
Pop(x) == [op |-> "Pop", oprand |-> x]
FpuPush(x) == [op |-> "FpuPush", oprand |-> x]
FpuPop(x) == [op |-> "FpuPop", oprand |-> x]
FpuStatusReg(x) == [op |-> "FpuStatusReg", oprand |-> x]
FpuReset == [op |-> "FpuReset"]
FpuCompare == [op |-> "FpuCompare"]
FpuAdd == [op |-> "FpuAdd"]
FpuSubtract == [op |-> "FpuSubtract"]
FpuMultiply == [op |-> "FpuMultiply"]
FpuDivide == [op |-> "FpuDivide"]
Reserve == [op |-> "Reserve"]
Ret(x) == [op |-> "Ret", bytes |-> x]
Call(x) == [op |-> "Call", label |-> x]
Jmp(x) == [op |-> "Jmp", label |-> x]
Shr(dest, shift_by) == [op |-> "Shr", dest |-> dest, shift_by |-> shift_by]
BitwiseAnd(dest, src) == [op |-> "BitwiseAnd", dest |-> dest, src |-> src]
BitwiseOr(dest, src) == [op |-> "BitwiseOr", dest |-> dest, src |-> src]
BitwiseNot(x) == [op |-> "BitwiseNot", oprand |-> x]
PushFlags == [op |-> "PushFlags"]
Cmp(dest, src) == [op |-> "Cmp", dest |-> dest, src |-> src]
Je(x) == [op |-> "Je", label |-> x]
Jne(x) == [op |-> "Jne", label |-> x]

\* format!("{}", id) of a usize: its decimal digits.
RECURSIVE to_string(_)
to_string(n) ==
    LET digit == <<"0", "1", "2", "3", "4", "5", "6", "7", "8", "9">>[(n % 10) + 1]
    IN  IF n < 10 THEN <<digit>> ELSE Append(to_string(n \div 10), digit)

label(id) == <<"l", "a", "b", "e", "l">> \o to_string(id)
func_label_as_a_label(id) == <<"l", "a", "b", "e", "l">> \o to_string(id)

func_label(id) == <<"f", "u", "n", "c">> \o to_string(id)
var_label(id) == <<"v", "a", "r">> \o to_string(id)
literal_label(counter) == <<"l", "i", "t", "e", "r", "a", "l">> \o to_string(counter)

main == <<"m", "a", "i", "n">>
printf == <<"p", "r", "i", "n", "t", "f">>
display_char == <<"d", "i", "s", "p", "l", "a", "y", "_", "c", "h", "a", "r">>

TARGET_NAME == "Linux elf64"

GenerateElf64(text, bss, rodata, counter) ==
    [text_section |-> text, bss_section |-> bss, rodata_section |-> rodata,
     num_label_counter |-> counter]

\* GenerateElf64::new
GenerateElf64New ==
    GenerateElf64(<<Comment(<<"Target: ", TARGET_NAME>>), Section("text"), Extern(printf),
                    Global(main), Label(main)>>,
                  <<Section("bss")>>, <<Section("rodata")>>, 0)

RETURN_INSTRUCTIONS == <<Pop(Register("BasePointer")), Ret(16)>>

POP_AND_CMP_WITH_ZERO_INSTRUCTIONS ==
    <<Pop(Register("Rax")), Cmp(Register("Rax"), OprandValue(ValInt(0)))>>

\* self.text_section.extend(..)
extend_text(self, instructions) ==
    [self EXCEPT !.text_section = @ \o instructions]

two_stack_items_to_fpu_stack(self) ==
    extend_text(self,
        <<FpuReset,
          FpuPush(AddressDisplaced(Register("StackPointer"), 8)),
          FpuPush(Address(Register("StackPointer"))),
          Add(Register("StackPointer"), OprandValue(ValInt(8)))>>)

add_arithmetic_instructions(self, operation) ==
    extend_text(two_stack_items_to_fpu_stack(self),
        <<operation, FpuPop(Address(Register("StackPointer")))>>)

\* add_comparison_instructions without the and that clears all bits except
\* the least significant one.
add_comparison_instructions_without_mask(self, operations) ==
    extend_text(
        extend_text(
            extend_text(two_stack_items_to_fpu_stack(self),
                <<FpuCompare, FpuStatusReg(Register("Ax"))>>),
            operations),
        <<Mov(Address(Register("StackPointer")), Register("Rax"))>>)

add_comparison_instructions(self, operations) ==
    extend_text(
        extend_text(
            extend_text(two_stack_items_to_fpu_stack(self),
                <<FpuCompare, FpuStatusReg(Register("Ax"))>>),
            operations),
        <<BitwiseAnd(Register("Rax"), OprandValue(ValInt(1))),
          Mov(Address(Register("StackPointer")), Register("Rax"))>>)

push_num_keeping_the_counter(self, num_val) ==
    [[self EXCEPT !.rodata_section = @ \o <<Label(literal_label(self.num_label_counter)),
                                            Declare(ValFloat(num_val))>>]
     EXCEPT !.text_section =
         Append(@, Push(Address(OprandLabel(literal_label(self.num_label_counter)))))]

\* The Push arm: the operand pushed, and for a Num the literal declared.
push_num(self, num_val) ==
    [[self EXCEPT !.num_label_counter = @ + 1,
                  !.rodata_section = @ \o <<Label(literal_label(self.num_label_counter)),
                                            Declare(ValFloat(num_val))>>]
     EXCEPT !.text_section =
         Append(@, Push(Address(OprandLabel(literal_label(self.num_label_counter)))))]

push_value(self, val) ==
    CASE val.value = "Num" -> push_num(self, val.num)
      [] val.value = "Variable" ->
            extend_text(self, <<Push(Address(OprandLabel(var_label(val.id))))>>)
      [] val.value = "Char" -> extend_text(self, <<Push(OprandValue(ValInt(val.code)))>>)
      [] val.value = "Bool" ->
            extend_text(self, <<Push(OprandValue(ValInt(IF val.bool THEN 1 ELSE 0)))>>)

handle_instruction(self, instruction) ==
    CASE instruction.ir = "Allocate" ->
            [self EXCEPT !.bss_section = @ \o <<Label(var_label(instruction.id)), Reserve>>]
      [] instruction.ir = "Push" -> push_value(self, instruction.val)
      [] instruction.ir = "Store" ->
            extend_text(self, <<Pop(Address(OprandLabel(var_label(instruction.id))))>>)
      [] instruction.ir = "Parameter" ->
            extend_text(self,
                <<Mov(Register("Rax"),
                      AddressDisplaced(Register("StackPointer"),
                                       16 + (instruction.param_number * 8))),
                  Mov(Address(OprandLabel(var_label(instruction.store_in))),
                      Register("Rax"))>>)
      [] instruction.ir = "Label" -> extend_text(self, <<Label(label(instruction.id))>>)
      [] instruction.ir = "Function" ->
            extend_text(self,
                <<Label(func_label(instruction.id)),
                  Push(Register("BasePointer")),
                  Mov(Register("BasePointer"), Register("StackPointer"))>>)
      [] instruction.ir = "CallExpectingVoid" ->
            extend_text(self, <<Call(func_label(instruction.id))>>)
      [] instruction.ir = "CallExpectingValue" ->
            extend_text(self, <<Call(func_label(instruction.id)), Push(Register("Rax"))>>)
      [] instruction.ir = "ReturnVoid" -> extend_text(self, RETURN_INSTRUCTIONS)
      [] instruction.ir = "ReturnValue" ->
            extend_text(extend_text(self, <<Pop(Register("Rax"))>>), RETURN_INSTRUCTIONS)
      [] instruction.ir = "Display" ->
            extend_text(self,
                <<Mov(Register("DestIndex"), OprandLabel(display_char)),
                  Mov(Register("SrcIndex"), OprandValue(ValInt(instruction.line_number))),
                  Pop(Register("Rdx")),
                  Mov(Register("Ax"), OprandValue(ValInt(0))),
                  Call(printf)>>)
      [] instruction.ir = "Jump" -> extend_text(self, <<Jmp(label(instruction.id))>>)
      [] instruction.ir = "JumpIfTrue" ->
            extend_text(extend_text(self, POP_AND_CMP_WITH_ZERO_INSTRUCTIONS),
                        <<Jne(label(instruction.id))>>)
      [] instruction.ir = "JumpIfFalse" ->
            extend_text(extend_text(self, POP_AND_CMP_WITH_ZERO_INSTRUCTIONS),
                        <<Je(label(instruction.id))>>)
      [] instruction.ir = "Equals" ->
            extend_text(self,
                <<Pop(Register("Rax")),
                  Sub(Register("Rax"), Address(Register("StackPointer"))),
                  PushFlags,
                  Pop(Register("Ax")),
                  Shr(Register("Ax"), 6),
                  BitwiseAnd(Register("Rax"), OprandValue(ValInt(1))),
                  Mov(Address(Register("StackPointer")), Register("Rax"))>>)
      [] instruction.ir = "Add" -> add_arithmetic_instructions(self, FpuAdd)
      [] instruction.ir = "Subtract" -> add_arithmetic_instructions(self, FpuSubtract)
      [] instruction.ir = "Multiply" -> add_arithmetic_instructions(self, FpuMultiply)
      [] instruction.ir = "Divide" -> add_arithmetic_instructions(self, FpuDivide)
      [] instruction.ir = "GreaterThan" ->
            add_comparison_instructions(self, <<Shr(Register("Ax"), 8)>>)
      [] instruction.ir = "LessThan" ->
            add_comparison_instructions(self,
                <<Mov(Register("Bx"), Register("Ax")),
                  Shr(Register("Ax"), 8),
                  Shr(Register("Bx"), 14),
                  BitwiseOr(Register("Ax"), Register("Bx")),
                  BitwiseNot(Register("Ax"))>>)
      [] instruction.ir = "Not" ->
            extend_text(self,
                <<BitwiseNot(Address(Register("StackPointer"))),
                  BitwiseAnd(Address(Register("StackPointer")), OprandValue(ValInt(1)))>>)

construct_output_rodata_before_bss(self) ==
    (self.text_section
        \o <<Mov(Register("Rax"), OprandValue(ValInt(0))), Ret(0)>>)
    \o (self.rodata_section
        \o <<Label(display_char),
             DeclareString("Line %u display (Char type): %c\\n\\0")>>)
    \o self.bss_section

\* construct_output, before the instructions are turned into text: the
\* instructions of the three sections in the order they are joined in.
construct_output(self) ==
    (self.text_section
        \o <<Mov(Register("Rax"), OprandValue(ValInt(0))), Ret(0)>>)
    \o self.bss_section
    \o (self.rodata_section
        \o <<Label(display_char),
             DeclareString("Line %u display (Char type): %c\\n\\0")>>)

(***************************************************************************)
(* The machine the output runs on: an x86-64 processor in 64-bit mode      *)
(* running the instructions as intel_syntax prints them for NASM.  What    *)
(* the stack pointer, the instruction pointer and the stack slots do is    *)
(* kept; numbers, characters, flags words and FPU contents are all "data". *)
(* A return address remembers the stack pointer its call started from.     *)
(***************************************************************************)
Data == [kind |-> "data", n |-> 0, m |-> 0]
ReturnAddress(ip, rsp_before) == [kind |-> "ret", n |-> ip, m |-> rsp_before]
StackAddress(a) == [kind |-> "addr", n |-> a, m |-> 0]

\* The 64-bit register a Reg is, or is the low 16 bits of.
FullRegister(reg) ==
    CASE reg = "Ax" -> "Rax"
      [] reg = "Bx" -> "Rbx"
      [] OTHER -> reg

\* The bytes an operand moves.  NASM ignores a size given to a register, so
\* `pop qword ax` is the 16-bit pop.
OperandBytes(oprand) ==
    IF oprand.oprand = "Register" /\ oprand.reg \in {"Ax", "Bx"} THEN 2 ELSE 8

\* The qword at a stack address; bytes that no qword was written to at
\* exactly that address are data.
LoadQword(mem, a) == IF a \in DOMAIN mem THEN mem[a] ELSE Data

StoreQword(mem, a, v) ==
    [b \in ({x \in DOMAIN mem : x <= a - 8 \/ x >= a + 8} \cup {a}) |->
        IF b = a THEN v ELSE mem[b]]

StoreAtLabel(data, l, v) ==
    [x \in (DOMAIN data \cup {l}) |-> IF x = l THEN v ELSE data[x]]

\* [rsp], [rsp + d]
StackOperandAddress(c, oprand) ==
    IF oprand.oprand = "AddressDisplaced" THEN c.rsp + oprand.displacement ELSE c.rsp

ReadOperand(c, oprand) ==
    CASE oprand.oprand \in {"Value", "Label"} -> Data
      [] oprand.oprand = "Register" ->
            IF oprand.reg = "StackPointer" THEN StackAddress(c.rsp)
            ELSE IF OperandBytes(oprand) = 2 THEN Data
            ELSE c.regs[oprand.reg]
      [] OTHER ->
            IF oprand.of.oprand = "Label"
            THEN IF oprand.of.label \in DOMAIN c.data THEN c.data[oprand.of.label] ELSE Data
            ELSE LoadQword(c.mem, StackOperandAddress(c, oprand))

WriteOperand(c, oprand, v) ==
    CASE oprand.oprand = "Register" ->
            [c EXCEPT !.regs[FullRegister(oprand.reg)] =
                          IF OperandBytes(oprand) = 2 THEN Data ELSE v]
      [] oprand.oprand \in {"Address", "AddressDisplaced"} ->
            IF oprand.of.oprand = "Label"
            THEN [c EXCEPT !.data = StoreAtLabel(@, oprand.of.label, v)]
            ELSE [c EXCEPT !.mem = StoreQword(@, StackOperandAddress(c, oprand), v),
                           !.written = {StackOperandAddress(c, oprand)}]

\* The lines of the output that define a label, and the labels a line uses.
definitions_of(program, l) ==
    {i \in 1..Len(program) : program[i].op = "Label" /\ program[i].label = l}

OperandLabels(oprand) ==
    CASE oprand.oprand = "Label" -> {oprand.label}
      [] oprand.oprand \in {"Address", "AddressDisplaced"} ->
            IF oprand.of.oprand = "Label" THEN {oprand.of.label} ELSE {}
      [] OTHER -> {}

LabelsUsed(instr) ==
    CASE instr.op \in {"Call", "Jmp", "Je", "Jne"} -> {instr.label}
      [] instr.op \in {"Push", "Pop", "FpuPush", "FpuPop", "FpuStatusReg", "BitwiseNot"} ->
            OperandLabels(instr.oprand)
      [] instr.op \in {"Mov", "Add", "Sub", "BitwiseAnd", "BitwiseOr", "Cmp"} ->
            OperandLabels(instr.dest) \cup OperandLabels(instr.src)
      [] instr.op = "Shr" -> OperandLabels(instr.dest)
      [] OTHER -> {}

Externs(program) ==
    {program[i].label : i \in {j \in 1..Len(program) : program[j].op = "Extern"}}

\* The assembler accepts the output: no label is defined twice, and every
\* label used is defined or declared extern.
Assembles(program) ==
    /\ {i \in 1..Len(program) :
            program[i].op = "Label"
                /\ Cardinality(definitions_of(program, program[i].label)) > 1} = {}
    /\ {i \in 1..Len(program) :
            LabelsUsed(program[i]) \subseteq
                (Externs(program)
                    \cup {l \in LabelsUsed(program[i]) : definitions_of(program, l) # {}})}
         = 1..Len(program)

AddressOf(program, l) == CHOOSE i \in definitions_of(program, l) : TRUE

Advance(c) == [c EXCEPT !.ip = @ + 1]

Fault(c) == [c EXCEPT !.status = "fault"]

PushQword(c, v) ==
    [c EXCEPT !.rsp = @ - 8, !.mem = StoreQword(@, c.rsp - 8, v), !.written = {c.rsp - 8}]

\* An extern C function (printf) called at rsp: it returns to the caller
\* with rsp as it was, having used the caller-saved registers and the stack
\* below rsp; called with a misaligned stack it may also fault.
CallExtern(c) ==
    {Advance([c EXCEPT !.regs = [r \in DOMAIN c.regs |->
                                    IF r \in {"Rbx", "BasePointer"} THEN c.regs[r] ELSE Data],
                       !.mem = [a \in {x \in DOMAIN c.mem : x >= c.rsp} |-> c.mem[a]]])}
    \cup (IF c.rsp % 16 = 8 THEN {} ELSE {Fault(c)})

\* ret N: pop the return address, then add N to rsp.
Return(c, bytes) ==
    IF LoadQword(c.mem, c.rsp).kind # "ret" THEN Fault(c)
    ELSE IF LoadQword(c.mem, c.rsp).n = 0
         THEN [c EXCEPT !.status = "exited", !.rsp = @ + 8 + bytes]
         ELSE [c EXCEPT !.ip = LoadQword(c.mem, c.rsp).n, !.rsp = @ + 8 + bytes]

\* The states the processor can be in after the instruction at c.ip.
Executed(c, program, instr) ==
    CASE instr.op \in {"Comment", "Extern", "Global", "Label",
                       "FpuReset", "FpuCompare", "FpuAdd", "FpuSubtract",
                       "FpuMultiply", "FpuDivide", "FpuPush"} -> {Advance(c)}
      [] instr.op = "Section" -> IF instr.name = "text" THEN {Advance(c)} ELSE {Fault(c)}
      [] instr.op \in {"Declare", "DeclareString", "Reserve"} -> {Fault(c)}
      [] instr.op = "Mov" ->
            {Advance(WriteOperand(c, instr.dest, ReadOperand(c, instr.src)))}
      [] instr.op = "Add" ->
            IF instr.dest = Register("StackPointer")
            THEN {Advance([c EXCEPT !.rsp = @ + instr.src.val.int])}
            ELSE {Advance(WriteOperand(c, instr.dest, Data))}
      [] instr.op \in {"Sub", "BitwiseAnd", "BitwiseOr", "Shr"} ->
            {Advance(WriteOperand(c, instr.dest, Data))}
      [] instr.op \in {"BitwiseNot", "FpuPop", "FpuStatusReg"} ->
            {Advance(WriteOperand(c, instr.oprand, Data))}
      [] instr.op = "Push" -> {Advance(PushQword(c, ReadOperand(c, instr.oprand)))}
      [] instr.op = "PushFlags" -> {Advance(PushQword(c, Data))}
      [] instr.op = "Pop" ->
            {Advance(WriteOperand([c EXCEPT !.rsp = @ + OperandBytes(instr.oprand)],
                                  instr.oprand, LoadQword(c.mem, c.rsp)))}
      [] instr.op = "Cmp" -> {Advance([c EXCEPT !.zf = z]) : z \in BOOLEAN}
      [] instr.op = "Jmp" -> {[c EXCEPT !.ip = AddressOf(program, instr.label)]}
      [] instr.op = "Je" ->
            {IF c.zf THEN [c EXCEPT !.ip = AddressOf(program, instr.label)] ELSE Advance(c)}
      [] instr.op = "Jne" ->
            {IF c.zf THEN Advance(c) ELSE [c EXCEPT !.ip = AddressOf(program, instr.label)]}
      [] instr.op = "Call" ->
            IF instr.label \in Externs(program) THEN CallExtern(c)
            ELSE {[PushQword(c, ReturnAddress(c.ip + 1, c.rsp))
                       EXCEPT !.ip = AddressOf(program, instr.label)]}
      [] instr.op = "Ret" -> {Return(c, instr.bytes)}

\* The processor when the C runtime has called main: the return address
\* into the runtime is on top of the stack.
Loaded(program) ==
    [status |-> "running", ip |-> AddressOf(program, main), rsp |-> 0,
     regs |-> [r \in {"Rax", "Rbx", "Rdx", "BasePointer", "DestIndex", "SrcIndex"} |-> Data],
     mem |-> [a \in {0} |-> ReturnAddress(0, 8)],
     data |-> [l \in {} |-> Data],
     zf |-> FALSE, at |-> 0, segment_rsp |-> 0, written |-> {}]

(***************************************************************************)
(* codegen/mod.rs: Generator::execute, one step per handle_instruction     *)
(* call and one for construct_output; then the output is assembled and     *)
(* run, one step per instruction.                                          *)
(***************************************************************************)
\* The IR instructions a vector is drawn from.
IrInstructions ==
    {IrAllocate(0), IrStore(0), IrParameter(0, 0), IrParameter(0, 1),
     IrPush(ValueNum("1.5")), IrPush(ValueNum("2.5")), IrPush(ValueVariable(0)), IrPush(ValueChar(120)),
     IrPush(ValueBool(TRUE)),
     IrLabel(0), IrLabel(1), IrJump(1), IrFunction(0), IrCallExpectingVoid(0), IrCallExpectingValue(0),
     IrDisplay("Char", 1), IrJump(0), IrJumpIfTrue(0), IrJumpIfFalse(0)}
    \cup {IrOp(name) : name \in {"ReturnVoid", "ReturnValue", "Equals", "Add", "Subtract",
                                 "Multiply", "Divide", "GreaterThan", "LessThan", "Not"}}

IrVectors == UNION {[1..n -> IrInstructions] : n \in 0..MaxIr}

\* A line of a section is marked with the index in ir of the instruction
\* it was emitted for; the lines new() writes are marked 0.
EmittedBy(index) == [for |-> index]

Marks(section, index) == [i \in 1..Len(section) |-> EmittedBy(index)]

EmittedByNew ==
    [text_section |-> Marks(GenerateElf64New.text_section, 0),
     bss_section |-> Marks(GenerateElf64New.bss_section, 0),
     rodata_section |-> Marks(GenerateElf64New.rodata_section, 0)]

\* The marks of the lines a handle_instruction call has added to a section.
Added(before, after, index) ==
    [i \in 1..(Len(after) - Len(before)) |-> EmittedBy(index)]

\* GenerateElf64::new().execute(instructions), before the loop.
ExecuteCalled(instructions) ==
    /\ ir = instructions
    /\ handled = 0
    /\ gen = GenerateElf64New
    /\ emitted_by = EmittedByNew
    /\ output = None
    /\ cpu = [status |-> "off"]

\* One iteration of the for loop.
HandleInstruction ==
    /\ output = None
    /\ handled < Len(ir)
    /\ \E self \in {handle_instruction(gen, ir[handled + 1])} :
        /\ gen' = self
        /\ emitted_by' =
               [text_section |-> emitted_by.text_section
                    \o Added(gen.text_section, self.text_section, handled + 1),
                bss_section |-> emitted_by.bss_section
                    \o Added(gen.bss_section, self.bss_section, handled + 1),
                rodata_section |-> emitted_by.rodata_section
                    \o Added(gen.rodata_section, self.rodata_section, handled + 1)]
    /\ handled' = handled + 1
    /\ UNCHANGED <<ir, output, cpu, checkerVars, lexerVars>>

\* The loop is over: self.construct_output().
ConstructOutput ==
    /\ output = None
    /\ handled = Len(ir)
    /\ output' = Some(construct_output(gen))
    /\ UNCHANGED <<ir, handled, gen, emitted_by, cpu, checkerVars, lexerVars>>

\* The output is assembled, linked and started.
Load ==
    /\ output # None
    /\ cpu.status = "off"
    /\ Assembles(output.v)
    /\ cpu' = Loaded(output.v)
    /\ UNCHANGED <<ir, handled, gen, emitted_by, output, checkerVars, lexerVars>>

\* The IR instruction (its index in ir) that a line of the output was
\* emitted for; 0 for the lines new() and construct_output add.  The marks
\* are laid out as construct_output lays out the lines.
Mark(line) == IF "for" \in DOMAIN line THEN line.for ELSE 0

EmittedForIn(marks, i) == IF i \in 1..Len(marks) THEN Mark(marks[i]) ELSE 0

EmittedFor(i) == EmittedForIn(construct_output(emitted_by), i)

FirstOfItsInstruction(i) == EmittedFor(i) # 0 /\ EmittedFor(i - 1) # EmittedFor(i)

LastOfItsInstruction(i) == EmittedFor(i) # 0 /\ EmittedFor(i + 1) # EmittedFor(i)

\* The processor runs the instruction at cpu.ip.
Execute ==
    /\ cpu.status = "running"
    /\ cpu.rsp \in (0 - MaxStack)..MaxStack
    /\ \E c \in Executed([cpu EXCEPT !.at = cpu.ip, !.written = {},
                                     !.segment_rsp = IF FirstOfItsInstruction(cpu.ip)
                                                     THEN cpu.rsp ELSE @],
                         output.v, output.v[cpu.ip]) :
           cpu' = c
    /\ UNCHANGED <<ir, handled, gen, emitted_by, output, checkerVars, lexerVars>>

(***************************************************************************)
(* lexer.rs: the configuration of a Lexer.                                 *)
(***************************************************************************)
State(parse, transitions) == [parse |-> parse, transitions |-> transitions]

ParseTo(tok) == [parse |-> "To", tok |-> tok]
ParseByFunction(func) == [parse |-> "ByFunction", func |-> func]
Invalid == [parse |-> "Invalid"]

Transition(match_by, to) == [match_by |-> match_by, to |-> to]

ByChar(expected) == [by |-> "ByChar", expected |-> expected]
ByChars(possible) == [by |-> "ByChars", possible |-> possible]
MatchByFunction(func) == [by |-> "ByFunction", func |-> func]
MatchAny == [by |-> "Any"]

ToSelf == [dest |-> "ToSelf"]
DestTo(key) == [dest |-> "To", key |-> key]

Lexer(states, initial_state_key, ignored) ==
    [states |-> states, initial_state_key |-> initial_state_key, ignored |-> ignored]

\* The characters of the input streams.
Alphabet == {"a", "1", " ", "."}
Letters == {"a"}
Digits == {"1"}

\* The functions a configuration hands to Match::ByFunction.
MatchFunction(func, chr) ==
    CASE func = "is_alphabetic" -> chr \in Letters
      [] func = "is_digit" -> chr \in Digits

\* The functions a configuration hands to Parse::ByFunction: an identifier
\* keeps its lexeme, a number is read in base ten with the count of its
\* fractional digits.
RECURSIVE DecimalFrom(_, _, _, _)
DecimalFrom(text, i, mantissa, scale) ==
    IF i > Len(text) THEN [token |-> "NumberLiteral", mantissa |-> mantissa, scale |-> scale]
    ELSE IF text[i] = "." THEN DecimalFrom(text, i + 1, mantissa, 0)
    ELSE DecimalFrom(text, i + 1, 10 * mantissa + 1, IF scale < 0 THEN scale ELSE scale + 1)

ParseFunction(func, text) ==
    CASE func = "Identifier" -> [token |-> "Identifier", value |-> text]
      [] func = "NumberLiteral" -> DecimalFrom(text, 1, 0, -1)

\* Identifiers, integers and reals; a real needs a digit after its point.
TillLexer ==
    Lexer(
        ("Initial" :> State(Invalid,
            <<Transition(MatchByFunction("is_digit"), DestTo("Integer")),
              Transition(MatchByFunction("is_alphabetic"), DestTo("Identifier"))>>))
     @@ ("Identifier" :> State(ParseByFunction("Identifier"),
            <<Transition(MatchByFunction("is_alphabetic"), ToSelf)>>))
     @@ ("Integer" :> State(ParseByFunction("NumberLiteral"),
            <<Transition(MatchByFunction("is_digit"), ToSelf),
              Transition(ByChar("."), DestTo("PotentialReal"))>>))
     @@ ("PotentialReal" :> State(Invalid,
            <<Transition(MatchByFunction("is_digit"), DestTo("Real"))>>))
     @@ ("Real" :> State(ParseByFunction("NumberLiteral"),
            <<Transition(MatchByFunction("is_digit"), ToSelf)>>)),
        "Initial", <<" ">>)

\* Text quoted by points, in which every character counts, and words; several
\* transitions of a state accept the same character.
QuotedLexer ==
    Lexer(
        ("Initial" :> State(Invalid,
            <<Transition(ByChar("."), DestTo("Quoted")),
              Transition(ByChars(<<"a", "1">>), DestTo("Word"))>>))
     @@ ("Quoted" :> State(Invalid,
            <<Transition(ByChar("."), DestTo("Closed")),
              Transition(MatchAny, ToSelf)>>))
     @@ ("Closed" :> State(ParseTo([token |-> "StringLiteral"]), <<>>))
     @@ ("Word" :> State(ParseTo([token |-> "Word"]),
            <<Transition(ByChars(<<"a", "1">>), ToSelf),
              Transition(ByChar("a"), DestTo("Closed"))>>)),
        "Initial", <<" ">>)

\* A machine that comes back to its initial state within a lexeme, with two
\* ignored characters of which one is matched by a transition.
LoopingLexer ==
    Lexer(
        ("Initial" :> State(ParseTo([token |-> "Run"]),
            <<Transition(ByChar("a"), ToSelf),
              Transition(ByChar("1"), DestTo("Odd"))>>))
     @@ ("Odd" :> State(Invalid,
            <<Transition(ByChar("1"), DestTo("Initial")),
              Transition(ByChar(" "), ToSelf)>>)),
        "Initial", <<" ", ".">>)

\* A configuration with a destination that the state map does not hold.
DanglingLexer ==
    Lexer(
        ("Initial" :> State(Invalid,
            <<Transition(ByChar("a"), DestTo("Missing")),
              Transition(ByChar("1"), ToSelf)>>)),
        "Initial", <<" ">>)

\* Runs of letters and runs of digits, whitespace ignored.
RunsLexer ==
    Lexer(
        ("Initial" :> State(Invalid,
            <<Transition(MatchByFunction("is_alphabetic"), DestTo("Ident")),
              Transition(MatchByFunction("is_digit"), DestTo("Num"))>>))
     @@ ("Ident" :> State(ParseByFunction("Identifier"),
            <<Transition(MatchByFunction("is_alphabetic"), ToSelf)>>))
     @@ ("Num" :> State(ParseByFunction("NumberLiteral"),
            <<Transition(MatchByFunction("is_digit"), ToSelf)>>)),
        "Initial", <<" ">>)

\* A configuration whose only missing destination belongs to a state that
\* no transition leads to.
StrandedLexer ==
    Lexer(
        ("Initial" :> State(Invalid,
            <<Transition(ByChar("a"), DestTo("Word"))>>))
     @@ ("Word" :> State(ParseTo([token |-> "Word"]),
            <<Transition(ByChar("a"), ToSelf)>>))
     @@ ("Stranded" :> State(Invalid,
            <<Transition(ByChar("1"), DestTo("Missing"))>>)),
        "Initial", <<" ">>)

Lexers == {TillLexer, QuotedLexer, LoopingLexer, DanglingLexer, RunsLexer, StrandedLexer}

\* A run of three letters, a space and a run of two digits.
LettersSpaceDigits == <<"a", "a", "a", " ", "1", "1">>

Inputs == UNION {[1..n -> Alphabet] : n \in 0..MaxInput} \cup {LettersSpaceDigits}

(***************************************************************************)
(* stream::Stream, as the lexer uses it: peek, advance, get_pos.  A        *)
(* position is the number of characters advanced over.                     *)
(***************************************************************************)
Stream(chars) == [chars |-> chars, pos |-> 0]

peek(s) == IF s.pos < Len(s.chars) THEN Some(s.chars[s.pos + 1]) ELSE None

advance(s) == [s EXCEPT !.pos = IF s.pos < Len(s.chars) THEN s.pos + 1 ELSE s.pos]

get_pos(s) == s.pos

(***************************************************************************)
(* lexer.rs: get_state, transition_state, parse_lexeme.                    *)
(***************************************************************************)
Contains(seq, chr) == \E i \in DOMAIN seq : seq[i] = chr

\* states.get(&key); next() panics on None (expect).
get_state(states, key) == IF key \in DOMAIN states THEN Some(states[key]) ELSE None

should_transition(match_by, chr) ==
    CASE match_by.by = "ByChar" -> chr = match_by.expected
      [] match_by.by = "ByChars" -> Contains(match_by.possible, chr)
      [] match_by.by = "ByFunction" -> MatchFunction(match_by.func, chr)
      [] match_by.by = "Any" -> TRUE

\* destination in which Dest::ToSelf is taken for the key of a state.
destination_self_as_a_key(to, key) ==
    IF to.dest = "To" THEN Some(to.key) ELSE Some("Self")

\* destination in which Dest::ToSelf leads nowhere.
destination_never_to_self(to, key) ==
    IF to.dest = "To" THEN Some(to.key) ELSE None

destination(to, key) ==
    IF to.dest = "To" THEN Some(to.key) ELSE Some(key)

\* for transition in transitions { .. return .. }, from the i-th on.
RECURSIVE transition_state_from(_, _, _, _)
transition_state_from(key, transitions, i, chr) ==
    IF i > Len(transitions) THEN None
    ELSE IF should_transition(transitions[i].match_by, chr)
         THEN destination(transitions[i].to, key)
    ELSE transition_state_from(key, transitions, i + 1, chr)

\* transition_state with the transitions consulted last to first.
RECURSIVE transition_state_backwards_from(_, _, _, _)
transition_state_backwards_from(key, transitions, i, chr) ==
    IF i < 1 THEN None
    ELSE IF should_transition(transitions[i].match_by, chr)
         THEN destination(transitions[i].to, key)
    ELSE transition_state_backwards_from(key, transitions, i - 1, chr)

transition_state_backwards(key, transitions, chr) ==
    transition_state_backwards_from(key, transitions, Len(transitions), chr)

transition_state(key, transitions, chr) ==
    transition_state_from(key, transitions, 1, chr)

\* The ignored test of next() without its comparison of the state keys.
can_ignore_in_any_state(lexer, key, chr) == Contains(lexer.ignored, chr)

\* self.lxr.ignored.contains(&chr) && current_key == self.lxr.initial_state_key
can_ignore(lexer, key, chr) ==
    Contains(lexer.ignored, chr) /\ key = lexer.initial_state_key

LexToken(tok, text, pos) == [ok |-> TRUE, token |-> tok, lexeme |-> text, pos |-> pos]
UnexpectedChar(chr, text, pos) ==
    [ok |-> FALSE, failure |-> "UnexpectedChar", chr |-> chr, lexeme |-> text, pos |-> pos]
UnexpectedEof(text, pos) ==
    [ok |-> FALSE, failure |-> "UnexpectedEof", lexeme |-> text, pos |-> pos]

\* parse_lexeme that reports a stopping character whatever the final state.
parse_lexeme_char_first(text, next_chr, pos, final_state) ==
    IF next_chr.some THEN UnexpectedChar(next_chr.v, text, pos)
    ELSE IF final_state.parse.parse = "To" THEN LexToken(final_state.parse.tok, text, pos)
    ELSE IF final_state.parse.parse = "ByFunction"
         THEN LexToken(ParseFunction(final_state.parse.func, text), text, pos)
    ELSE UnexpectedEof(text, pos)

parse_lexeme(text, next_chr, pos, final_state) ==
    IF final_state.parse.parse = "To" THEN LexToken(final_state.parse.tok, text, pos)
    ELSE IF final_state.parse.parse = "ByFunction"
         THEN LexToken(ParseFunction(final_state.parse.func, text), text, pos)
    ELSE IF next_chr.some THEN UnexpectedChar(next_chr.v, text, pos)
    ELSE UnexpectedEof(text, pos)

(***************************************************************************)
(* lexer.rs: LexTokenIterator::next, one action per step of the call.      *)
(***************************************************************************)
LexNotCalled == [returned |-> "nothing"]
LexNone == [returned |-> "None"]
LexSome(result) == [returned |-> "Some", result |-> result]

\* No checker takes part in a run of the lexer.
CheckerUnused ==
    /\ scope_stack = <<>>
    /\ stmts = 0
    /\ item = NotCalled
    /\ yielded = <<>>
    /\ trace = <<>>
    /\ panicked = FALSE
    /\ ret = NoRet
    /\ input = NoInput

\* What a step was taken on: the character peeked, and the key, the lexeme
\* and the position before the step; start is the position at which the
\* call began, skipped the positions of the characters advanced over as
\* ignored since the iterator was made.
Step(kind, chr, start) ==
    [kind |-> kind, chr |-> chr, key |-> current_key, lexeme |-> lexeme,
     pos |-> get_pos(strm), start |-> start, skipped |-> step.skipped]

\* Lexer::new(states, initial_state_key, ignored).input(strm)
LexerInput(lexer, chars) ==
    /\ lxr = lexer
    /\ strm = Stream(chars)
    /\ pc = "ready"
    /\ current_key = lexer.initial_state_key
    /\ lexeme = <<>>
    /\ unexpected_char = None
    /\ lex_item = LexNotCalled
    /\ tokens = <<>>
    /\ step = [kind |-> "input", chr |-> "", key |-> lexer.initial_state_key,
               lexeme |-> <<>>, pos |-> 0, start |-> 0, skipped |-> {}]

Peeked == peek(strm)
CurrentState == get_state(lxr.states, current_key)
Transitioned == transition_state(current_key, CurrentState.v.transitions, Peeked.v)

\* next() that starts in the state the last call ended in.
LexNextCallKeepsKey ==
    /\ pc = "ready"
    /\ pc' = "loop"
    /\ lexeme' = <<>>
    /\ unexpected_char' = None
    /\ step' = Step("call", "", get_pos(strm))
    /\ UNCHANGED <<lxr, strm, current_key, lex_item, tokens>>
    /\ UNCHANGED <<checkerVars, codegenVars>>

\* next() is called: current_key, lexeme and unexpected_char are set up.
LexNextCall ==
    /\ pc = "ready"
    /\ pc' = "loop"
    /\ current_key' = lxr.initial_state_key
    /\ lexeme' = <<>>
    /\ unexpected_char' = None
    /\ step' = Step("call", "", get_pos(strm))
    /\ UNCHANGED <<lxr, strm, lex_item, tokens>>
    /\ UNCHANGED <<checkerVars, codegenVars>>

\* while let Some(chr) = self.strm.peek(): the stream has ended.
LexEndOfStream ==
    /\ pc = "loop"
    /\ ~Peeked.some
    /\ pc' = "finish"
    /\ step' = Step("end", "", step.start)
    /\ UNCHANGED <<lxr, strm, current_key, lexeme, unexpected_char, lex_item, tokens>>
    /\ UNCHANGED <<checkerVars, codegenVars>>

\* A transition accepts the peeked character.
LexTransition ==
    /\ pc = "loop"
    /\ Peeked.some
    /\ CurrentState.some
    /\ Transitioned.some
    /\ lexeme' = Append(lexeme, Peeked.v)
    /\ strm' = advance(strm)
    /\ current_key' = Transitioned.v
    /\ step' = Step("transition", Peeked.v, step.start)
    /\ UNCHANGED <<lxr, pc, unexpected_char, lex_item, tokens>>
    /\ UNCHANGED <<checkerVars, codegenVars>>

\* The ignored branch of next() without its advance of the stream.
LexIgnoreStaying ==
    /\ pc = "loop"
    /\ Peeked.some
    /\ CurrentState.some
    /\ ~Transitioned.some
    /\ can_ignore(lxr, current_key, Peeked.v)
    /\ step' = Step("ignore", Peeked.v, step.start)
    /\ UNCHANGED <<lxr, strm, pc, current_key, lexeme, unexpected_char, lex_item, tokens>>
    /\ UNCHANGED <<checkerVars, codegenVars>>

\* The ignored branch of next() with the character pushed to the lexeme.
LexIgnoreAppending ==
    /\ pc = "loop"
    /\ Peeked.some
    /\ CurrentState.some
    /\ ~Transitioned.some
    /\ can_ignore(lxr, current_key, Peeked.v)
    /\ lexeme' = Append(lexeme, Peeked.v)
    /\ strm' = advance(strm)
    /\ step' = [Step("ignore", Peeked.v, step.start) EXCEPT !.skipped = @ \cup {get_pos(strm)}]
    /\ UNCHANGED <<lxr, pc, current_key, unexpected_char, lex_item, tokens>>
    /\ UNCHANGED <<checkerVars, codegenVars>>

\* No transition accepts it and it can be ignored.
LexIgnore ==
    /\ pc = "loop"
    /\ Peeked.some
    /\ CurrentState.some
    /\ ~Transitioned.some
    /\ can_ignore(lxr, current_key, Peeked.v)
    /\ strm' = advance(strm)
    /\ step' = [Step("ignore", Peeked.v, step.start) EXCEPT !.skipped = @ \cup {get_pos(strm)}]
    /\ UNCHANGED <<lxr, pc, current_key, lexeme, unexpected_char, lex_item, tokens>>
    /\ UNCHANGED <<checkerVars, codegenVars>>

\* The break of next() after an advance over the character.
LexBreakAdvancing ==
    /\ pc = "loop"
    /\ Peeked.some
    /\ CurrentState.some
    /\ ~Transitioned.some
    /\ ~can_ignore(lxr, current_key, Peeked.v)
    /\ unexpected_char' = Peeked
    /\ strm' = advance(strm)
    /\ pc' = "finish"
    /\ step' = Step("break", Peeked.v, step.start)
    /\ UNCHANGED <<lxr, current_key, lexeme, lex_item, tokens>>
    /\ UNCHANGED <<checkerVars, codegenVars>>

\* No transition accepts it and it cannot be ignored: break.
LexBreak ==
    /\ pc = "loop"
    /\ Peeked.some
    /\ CurrentState.some
    /\ ~Transitioned.some
    /\ ~can_ignore(lxr, current_key, Peeked.v)
    /\ unexpected_char' = Peeked
    /\ pc' = "finish"
    /\ step' = Step("break", Peeked.v, step.start)
    /\ UNCHANGED <<lxr, strm, current_key, lexeme, lex_item, tokens>>
    /\ UNCHANGED <<checkerVars, codegenVars>>

\* get_state finds no state for current_key: expect panics.
LexUndefinedState ==
    /\ \/ pc = "loop" /\ Peeked.some
       \/ pc = "finish" /\ lexeme # <<>>
    /\ ~CurrentState.some
    /\ pc' = "panicked"
    /\ step' = Step("panic", "", step.start)
    /\ UNCHANGED <<lxr, strm, current_key, lexeme, unexpected_char, lex_item, tokens>>
    /\ UNCHANGED <<checkerVars, codegenVars>>

\* After the loop: Some(parse_lexeme(..)) of a lexeme that is not empty.
LexReturnSome ==
    /\ pc = "finish"
    /\ lexeme # <<>>
    /\ CurrentState.some
    /\ \E parsed \in {parse_lexeme(lexeme, unexpected_char, get_pos(strm), CurrentState.v)} :
          /\ lex_item' = LexSome(parsed)
          /\ tokens' = Append(tokens, parsed)
    /\ pc' = "ready"
    /\ step' = Step("return", "", step.start)
    /\ UNCHANGED <<lxr, strm, current_key, lexeme, unexpected_char>>
    /\ UNCHANGED <<checkerVars, codegenVars>>

\* After the loop: None, nothing was added to the lexeme.
LexReturnNone ==
    /\ pc = "finish"
    /\ lexeme = <<>>
    /\ lex_item' = LexNone
    /\ pc' = "ready"
    /\ step' = Step("return", "", step.start)
    /\ UNCHANGED <<lxr, strm, current_key, lexeme, unexpected_char, tokens>>
    /\ UNCHANGED <<checkerVars, codegenVars>>

(***************************************************************************)
(* The registers bit by bit, for the instructions that follow fcom in a    *)
(* comparison.  A qword is its four 16-bit words, the lowest first; ax and *)
(* bx are the lowest words of rax and rbx, and an instruction on them      *)
(* leaves the other three words alone.                                     *)
(***************************************************************************)
WordBits == 16
WordValues == 65536

RECURSIVE Pow2(_)
Pow2(n) == IF n = 0 THEN 1 ELSE 2 * Pow2(n - 1)

\* The words an operand of an instruction covers: one for ax and bx,
\* whatever size the instruction names, four for a qword.
OperandWords(oprand) == OperandBytes(oprand) \div 2

\* An immediate of the width of the destination (none is negative here).
RECURSIVE Immediate(_, _)
Immediate(n, words) ==
    IF words = 0 THEN <<>>
    ELSE <<n % WordValues>> \o Immediate(n \div WordValues, words - 1)

ReadBits(c, oprand, words) ==
    CASE oprand.oprand = "Value" -> Immediate(oprand.val.int, words)
      [] oprand.oprand = "Register" ->
            SubSeq(c[FullRegister(oprand.reg)], 1, OperandWords(oprand))
      [] oprand.oprand = "Address" -> c.top

WriteBits(c, oprand, value) ==
    CASE oprand.oprand = "Register" ->
            [c EXCEPT ![FullRegister(oprand.reg)] =
                [i \in 1..4 |-> IF i <= OperandWords(oprand) THEN value[i] ELSE @[i]]]
      [] oprand.oprand = "Address" -> [c EXCEPT !.top = value]

RECURSIVE OrOfBits(_, _, _)
OrOfBits(a, b, n) ==
    IF n = 0 THEN 0
    ELSE (IF a % 2 = 1 \/ b % 2 = 1 THEN 1 ELSE 0) + 2 * OrOfBits(a \div 2, b \div 2, n - 1)

RECURSIVE AndOfBits(_, _, _)
AndOfBits(a, b, n) ==
    IF n = 0 THEN 0
    ELSE (IF a % 2 = 1 /\ b % 2 = 1 THEN 1 ELSE 0) + 2 * AndOfBits(a \div 2, b \div 2, n - 1)

\* shr by less than a word: each word takes the low bits of the next one up.
ShiftedRight(value, by) ==
    [i \in 1..Len(value) |->
        (value[i] \div Pow2(by))
        + (IF i < Len(value) THEN (value[i + 1] % Pow2(by)) * Pow2(WordBits - by) ELSE 0)]

\* The registers and the qword at [rsp] after an instruction.
Computed(c, instr) ==
    CASE instr.op = "FpuStatusReg" -> WriteBits(c, instr.oprand, <<c.sw>>)
      [] instr.op = "Mov" ->
            WriteBits(c, instr.dest, ReadBits(c, instr.src, OperandWords(instr.dest)))
      [] instr.op = "Shr" ->
            WriteBits(c, instr.dest,
                ShiftedRight(ReadBits(c, instr.dest, OperandWords(instr.dest)), instr.shift_by))
      [] instr.op = "BitwiseOr" ->
            WriteBits(c, instr.dest,
                [i \in 1..OperandWords(instr.dest) |->
                    OrOfBits(ReadBits(c, instr.dest, OperandWords(instr.dest))[i],
                             ReadBits(c, instr.src, OperandWords(instr.dest))[i], WordBits)])
      [] instr.op = "BitwiseAnd" ->
            WriteBits(c, instr.dest,
                [i \in 1..OperandWords(instr.dest) |->
                    AndOfBits(ReadBits(c, instr.dest, OperandWords(instr.dest))[i],
                              ReadBits(c, instr.src, OperandWords(instr.dest))[i], WordBits)])
      [] instr.op = "BitwiseNot" ->
            WriteBits(c, instr.oprand,
                [i \in 1..OperandWords(instr.oprand) |->
                    (WordValues - 1) - ReadBits(c, instr.oprand, OperandWords(instr.oprand))[i]])

\* The status words fcom can leave, and what the rest of rax, rbx and the
\* slot at [rsp] hold before fstsw: all bits clear or all bits set.
StatusWords == 0..(WordValues - 1)
Leftovers == {0, WordValues - 1}

\* The line of the output that stores the status word.
StatusStored(program) == CHOOSE i \in DOMAIN program : program[i].op = "FpuStatusReg"

\* A comparison has been handled, its operands compared: fstsw is next.
Compared(self, name, sw, leftover) ==
    /\ ir = <<IrOp(name)>>
    /\ gen = self
    /\ handled = StatusStored(self.text_section) - 1
    /\ emitted_by = EmittedByNew
    /\ output = None
    /\ cpu = [status |-> "comparing", sw |-> sw,
              Rax |-> [i \in 1..4 |-> leftover], Rbx |-> [i \in 1..4 |-> leftover],
              top |-> [i \in 1..4 |-> leftover]]

\* The processor runs the next line of the comparison.
Compute ==
    /\ cpu.status = "comparing"
    /\ handled < Len(gen.text_section)
    /\ cpu' = Computed(cpu, gen.text_section[handled + 1])
    /\ handled' = handled + 1
    /\ UNCHANGED <<ir, gen, emitted_by, output, checkerVars, lexerVars>>

(***************************************************************************)
(* Specifications.                                                         *)
(***************************************************************************)
vars == <<checkerVars, lexerVars, codegenVars>>

Init == \E n \in 0..MaxStmts : CheckerNew(n)

Next == NextStatement \/ NextEndOfInput

Spec == Init /\ [][Next]_vars

\* Checker::new(iter::empty()), then the methods in any order.
InitScoping == CheckerNew(0)

NextScoping ==
    \/ BeginNewScope
    \/ EndScope
    \/ IntroduceVariable
    \/ VariableLookup

SpecScoping == InitScoping /\ [][NextScoping]_vars

\* The same Checker, with check_block called on the stacks it builds.
InitBlock == CheckerNew(0)

NextBlock ==
    \/ BeginNewScope
    \/ EndScope
    \/ IntroduceVariable
    \/ CheckBlock

SpecBlock == InitBlock /\ [][NextBlock]_vars

\* A lexer of one of the configurations, given an input stream.
InitFunctions == CheckerNew(0)

NextFunctions ==
    \/ BeginNewScope
    \/ EndScope
    \/ IntroduceFunction
    \/ FunctionLookup

SpecFunctions == InitFunctions /\ [][NextFunctions]_vars

InitExpr == \E expr \in Expressions : CheckerNewFor(ExprInput(expr))

NextExpr ==
    \/ BeginNewScope
    \/ IntroduceVariable
    \/ CheckExpr

SpecExpr == InitExpr /\ [][NextExpr]_vars

InitCall == \E call \in Calls : CheckerNewFor(ExprInput(call))

NextCall ==
    \/ BeginNewScope
    \/ IntroduceFunction
    \/ CheckExpr

SpecCall == InitCall /\ [][NextCall]_vars

InitStmt == \E stmt \in Statements : CheckerNewFor(StmtInput(stmt))

NextStmt ==
    \/ BeginNewScope
    \/ IntroduceVariable
    \/ CheckStmt

SpecStmt == InitStmt /\ [][NextStmt]_vars

\* The scopes of the stacks the methods are called on: with and without
\* definitions, the variable x of the type of a condition and of another.
FrameScopes ==
    {Scope(<<>>, <<>>),
     Scope(<<VariableDef("x", "Bool")>>, <<FunctionDef("f", <<>>, Some("Num"))>>),
     Scope(<<VariableDef("x", "Num"), VariableDef("y", "Bool")>>,
           <<FunctionDef("g", <<"Num">>, None)>>)}

FrameStacks == UNION {[1..n -> FrameScopes] : n \in 0..(MaxScopes - 1)}

FrameInputs ==
    {StmtInput(stmt) : stmt \in Statements}
    \cup {ExprInput(expr) : expr \in Expressions \cup Calls}

\* A Checker whose scope stack earlier calls have built, and the argument
\* of the calls to come.
CheckerWith(stack, an_input) ==
    /\ scope_stack = stack
    /\ stmts = 0
    /\ item = NotCalled
    /\ yielded = <<>>
    /\ trace = <<>>
    /\ panicked = FALSE
    /\ ret = NoRet
    /\ input = an_input
    /\ LexerUnused
    /\ GeneratorUnused

InitFrame == \E stack \in FrameStacks, an_input \in FrameInputs : CheckerWith(stack, an_input)

NextFrame ==
    \/ VariableLookup
    \/ FunctionLookup
    \/ CheckExpr
    \/ ExpectExprType
    \/ CheckStmt

SpecFrame == InitFrame /\ [][NextFrame]_vars

InitCodegen ==
    /\ CheckerUnused
    /\ LexerUnused
    /\ \E instructions \in IrVectors : ExecuteCalled(instructions)

NextCodegen ==
    \/ HandleInstruction
    \/ ConstructOutput
    \/ Load
    \/ Execute

SpecCodegen == InitCodegen /\ [][NextCodegen]_vars

\* A comparison of two numbers, from the fstsw that follows fcom.
InitComparison ==
    /\ CheckerUnused
    /\ LexerUnused
    /\ \E name \in {"GreaterThan", "LessThan"} :
          \E self \in {handle_instruction(GenerateElf64New, IrOp(name))} :
             \E sw \in StatusWords, leftover \in Leftovers :
                Compared(self, name, sw, leftover)

NextComparison == Compute

SpecComparison == InitComparison /\ [][NextComparison]_vars

InitLexer ==
    /\ CheckerUnused
    /\ GeneratorUnused
    /\ \E lexer \in Lexers, chars \in Inputs : LexerInput(lexer, chars)

NextLexer ==
    \/ LexNextCall
    \/ LexEndOfStream
    \/ LexTransition
    \/ LexIgnore
    \/ LexBreak
    \/ LexUndefinedState
    \/ LexReturnSome
    \/ LexReturnNone

SpecLexer == InitLexer /\ [][NextLexer]_vars

\* A call of next() that has begun runs on until it returns or panics; the
\* caller is free never to call again.
LexRunning ==
    \/ LexEndOfStream
    \/ LexTransition
    \/ LexIgnore
    \/ LexBreak
    \/ LexUndefinedState
    \/ LexReturnSome
    \/ LexReturnNone

SpecLexerLive == InitLexer /\ [][NextLexer]_vars /\ WF_vars(LexRunning)

(***************************************************************************)
(* Properties of the checker.                                              *)
(***************************************************************************)
AllAccepted == \A i \in DOMAIN yielded : yielded[i] = "Ok"
SomeRejected == \E i \in DOMAIN yielded : yielded[i] = "Err"

\* C1: check_block pops the scope it pushed on every exit: the depth of the
\* scope stack after check_block returns, Ok or Err, is the depth at entry.
C1_CheckBlockRestoresDepth ==
    ret.op = "check_block" => Len(scope_stack) = ret.entry_depth

\* C2: once next() has returned Err, the checker proceeds: between the later
\* calls the scope stack holds the program scope only, and the call at
\* end-of-input leaves it empty, passes the assertion and returns None.
C2_CheckerProceedsAfterErr ==
    SomeRejected =>
        /\ ~panicked
        /\ item.returned = "Some" => Len(scope_stack) = 1
        /\ item.returned = "None" => scope_stack = <<>>

\* C3: while every statement is accepted the scope stack is never empty
\* between Checker::new and the end-of-input call (neither between the calls
\* nor at any push or pop within one), and it is empty after that call, which
\* passes its assertion.
C3_ScopeStackOfAcceptedProgram ==
    AllAccepted =>
        /\ ~panicked
        /\ item.returned # "None" =>
              /\ scope_stack # <<>>
              /\ \A i \in DOMAIN trace : trace[i] >= 1
        /\ item.returned = "None" => scope_stack = <<>>

\* An accepted program with a statement whose block was entered and left,
\* and an accepted program at its end.
C3_Witness ==
    /\ AllAccepted
    /\ yielded # <<>>
    /\ item.returned = "None"
    /\ scope_stack = <<>>

\* C10: variable_lookup returns the definition of the innermost scope that
\* defines the identifier (the first one that scope holds), and
\* VariableNotInScope exactly when no scope on the stack defines it.
Defines(scope, ident) ==
    \E j \in DOMAIN scope.variable_defs : scope.variable_defs[j].identifier = ident

FirstDefinition(scope, ident) ==
    LET defs == scope.variable_defs
        first == CHOOSE j \in DOMAIN defs :
                     /\ defs[j].identifier = ident
                     /\ \A k \in 1..(j - 1) : defs[k].identifier # ident
    IN  defs[first]

C10_VariableLookupInnermostFirst ==
    ret.op = "variable_lookup" =>
        LET defining == {i \in DOMAIN scope_stack : Defines(scope_stack[i], ret.identifier)}
        IN  IF defining = {}
            THEN ret.result = Err(VariableNotInScope(ret.identifier))
            ELSE LET innermost == CHOOSE i \in defining : \A k \in defining : k <= i IN
                 ret.result = OkDef(FirstDefinition(scope_stack[innermost], ret.identifier))

\* A lookup answered by an inner definition that shadows an outer one of
\* another type.
C10_Witness ==
    /\ ret.op = "variable_lookup"
    /\ ret.result.ok
    /\ \E i, k \in DOMAIN scope_stack :
          /\ i < k
          /\ Defines(scope_stack[i], ret.identifier)
          /\ Defines(scope_stack[k], ret.identifier)
          /\ FirstDefinition(scope_stack[i], ret.identifier).var_type # ret.result.def.var_type
          /\ FirstDefinition(scope_stack[k], ret.identifier) = ret.result.def

\* C11: a variable introduced in scope S is found while S is on the stack:
\* right after its introduction, and unchanged through every scope begun
\* above S; once S is ended, what lookup finds is decided by the scopes that
\* remain alone, so a variable only S defined is no longer found.
C11_Step ==
    /\ (ret'.op = "introduce_variable" /\ ~panicked') =>
          /\ variable_lookup(scope_stack', ret'.identifier).ok
          /\ Defines(scope_stack'[Len(scope_stack')], ret'.identifier)
    /\ ret'.op = "begin_new_scope" =>
          \A ident \in Identifiers :
              variable_lookup(scope_stack', ident) = variable_lookup(scope_stack, ident)
    /\ (ret'.op = "end_scope" /\ scope_stack # <<>>) =>
          /\ Len(scope_stack') = Len(scope_stack) - 1
          /\ \A ident \in Identifiers :
                variable_lookup(scope_stack', ident).ok <=>
                    \E i \in 1..(Len(scope_stack) - 1) : Defines(scope_stack[i], ident)

C11_VisibleWhileScopeOnStack == [][C11_Step]_vars

\* A scope has been ended that defined a variable no remaining scope defines,
\* and a scope remains.
C11_Witness ==
    /\ ret.op = "end_scope"
    /\ ret.popped.some
    /\ scope_stack # <<>>
    /\ \E ident \in Identifiers :
          /\ Defines(ret.popped.v, ident)
          /\ ~variable_lookup(scope_stack, ident).ok

\* C12: function_lookup succeeds exactly when a scope on the stack holds a
\* definition of that identifier whose parameter types are the given ones,
\* one by one; it then returns such a definition, and otherwise
\* FunctionNotInScope with the identifier and the parameter types.
SameParameters(left, right) ==
    /\ Len(left) = Len(right)
    /\ \A k \in 1..Len(left) : left[k] = right[k]

Matches(def, ident, params) ==
    def.identifier = ident /\ SameParameters(def.parameter_types, params)

C12_FunctionLookupMatchesExactly ==
    ret.op = "function_lookup" =>
        LET matching == \E i \in DOMAIN scope_stack :
                            \E j \in DOMAIN scope_stack[i].function_defs :
                                Matches(scope_stack[i].function_defs[j],
                                        ret.identifier, ret.params)
        IN  /\ ret.result.ok <=> matching
            /\ ret.result.ok => Matches(ret.result.def, ret.identifier, ret.params)
            /\ ~ret.result.ok =>
                  ret.result = Err(FunctionNotInScope(ret.identifier, ret.params))

\* A lookup that fails although the stack holds a function of that name
\* taking the same types in another order.
C12_Witness ==
    /\ ret.op = "function_lookup"
    /\ ~ret.result.ok
    /\ Len(ret.params) = 2
    /\ \E i \in DOMAIN scope_stack : \E j \in DOMAIN scope_stack[i].function_defs :
          LET def == scope_stack[i].function_defs[j] IN
          /\ def.identifier = ret.identifier
          /\ Len(def.parameter_types) = 2
          /\ def.parameter_types[1] = ret.params[2]
          /\ def.parameter_types[2] = ret.params[1]

\* C18: a function whose identifier and parameter types are already defined
\* in a scope on the stack is not defined a second time: the scopes on the
\* stack never hold two definitions of one identifier and parameter types.
C18_AtMostOneDefinitionPerSignature ==
    \A i, k \in DOMAIN scope_stack :
        \A j \in DOMAIN scope_stack[i].function_defs :
            \A l \in DOMAIN scope_stack[k].function_defs :
                LET def == scope_stack[i].function_defs[j] IN
                Matches(scope_stack[k].function_defs[l], def.identifier, def.parameter_types)
                    => (i = k /\ j = l)

\* C13: for operands that both have a type, Equal has type Bool exactly
\* when the two types are the same, and otherwise fails with UnexpectedType,
\* expected the type of the left operand, encountered that of the right.
C13_EqualComparesOperandTypes ==
    (ret.op = "check_expr" /\ ret.expr.kind = "Equal") =>
        LET a == check_expr(scope_stack, ret.expr.left)
            b == check_expr(scope_stack, ret.expr.right)
        IN  (a.ok /\ b.ok) =>
                /\ ret.result = OkType("Bool") <=> a = b
                /\ a # b => ret.result = Err(UnexpectedType(a.type, b.type))

\* Equal of a variable and a literal of another type.
C13_Witness ==
    /\ ret.op = "check_expr"
    /\ ret.expr.kind = "Equal"
    /\ ret.expr.left.kind = "Variable"
    /\ ret.expr.right \in Literals
    /\ ~ret.result.ok
    /\ ret.result.failure.failure = "UnexpectedType"
    /\ ret.result.failure.expected # ret.result.failure.encountered

\* The typing table: the type of an expression of literals and operators,
\* "none" if it has none.
RECURSIVE TableType(_)
TableType(expr) ==
    CASE expr.kind = "NumberLiteral" -> "Num"
      [] expr.kind = "BooleanLiteral" -> "Bool"
      [] expr.kind = "CharLiteral" -> "Char"
      [] expr.kind \in ArithmeticKinds ->
            IF TableType(expr.left) = "Num" /\ TableType(expr.right) = "Num"
            THEN "Num" ELSE "none"
      [] expr.kind \in ComparisonKinds ->
            IF TableType(expr.left) = "Num" /\ TableType(expr.right) = "Num"
            THEN "Bool" ELSE "none"
      [] expr.kind = "Equal" ->
            IF TableType(expr.left) # "none" /\ TableType(expr.left) = TableType(expr.right)
            THEN "Bool" ELSE "none"
      [] expr.kind = "BooleanNot" ->
            IF TableType(expr.expr) = "Bool" THEN "Bool" ELSE "none"
      [] expr.kind = "UnaryMinus" ->
            IF TableType(expr.expr) = "Num" THEN "Num" ELSE "none"

RECURSIVE OfLiteralsAndOperators(_)
OfLiteralsAndOperators(expr) ==
    CASE expr \in Literals -> TRUE
      [] expr.kind \in BinaryKinds ->
            OfLiteralsAndOperators(expr.left) /\ OfLiteralsAndOperators(expr.right)
      [] expr.kind \in UnaryKinds -> OfLiteralsAndOperators(expr.expr)
      [] OTHER -> FALSE

\* C14: check_expr agrees with the typing table on every expression of
\* literals and operators: it returns the table's type where there is one and
\* UnexpectedType where there is none.
C14_CheckExprAgreesWithTypingTable ==
    (ret.op = "check_expr" /\ OfLiteralsAndOperators(ret.expr)) =>
        IF TableType(ret.expr) \in Type
        THEN ret.result = OkType(TableType(ret.expr))
        ELSE ~ret.result.ok /\ ret.result.failure.failure = "UnexpectedType"

\* UnaryMinus of a BooleanNot of a Bool: the inner operator types, the outer
\* one rejects its type.
C14_Witness ==
    /\ ret.op = "check_expr"
    /\ ret.expr.kind = "UnaryMinus"
    /\ ret.expr.expr.kind = "BooleanNot"
    /\ ret.expr.expr.expr \in Literals
    /\ TableType(ret.expr.expr) = "Bool"
    /\ ret.result = Err(UnexpectedType("Num", "Bool"))

\* C15: in an arithmetic or numeric comparison expression the left operand is
\* checked first: its failure, or UnexpectedType of its type if that is not
\* Num, is what is returned whatever the right operand is; the right
\* operand's error is returned only when the left operand is Num.
C15_LeftOperandCheckedFirst ==
    (ret.op = "check_expr" /\ ret.expr.kind \in ArithmeticKinds \cup ComparisonKinds) =>
        LET l == check_expr(scope_stack, ret.expr.left)
            r == check_expr(scope_stack, ret.expr.right)
        IN  /\ ~l.ok => ret.result = l
            /\ (l.ok /\ l.type # "Num") => ret.result = Err(UnexpectedType("Num", l.type))
            /\ (l = OkType("Num") /\ ~r.ok) => ret.result = r
            /\ (l = OkType("Num") /\ r.ok /\ r.type # "Num") =>
                  ret.result = Err(UnexpectedType("Num", r.type))

\* Both operands are in error, in different ways.
C15_Witness ==
    /\ ret.op = "check_expr"
    /\ ret.expr.kind \in ArithmeticKinds \cup ComparisonKinds
    /\ LET l == expect_expr_type(scope_stack, ret.expr.left, "Num")
           r == expect_expr_type(scope_stack, ret.expr.right, "Num")
       IN  ~l.ok /\ ~r.ok /\ l # r /\ ret.result = l

\* C16: a function call types its arguments from left to right and returns
\* the failure of the first that fails; otherwise it returns the return type
\* of the innermost definition of that identifier and those argument types,
\* VoidFunctionInExpr if that definition returns nothing, FunctionNotInScope
\* if there is no such definition.
C16_FunctionCallTyping ==
    (ret.op = "check_expr" /\ ret.expr.kind = "FunctionCall") =>
        LET ident == ret.expr.identifier
            args == ret.expr.args
            checked == [i \in DOMAIN args |-> check_expr(scope_stack, args[i])]
            failing == {i \in DOMAIN args : ~checked[i].ok}
            types == [i \in DOMAIN args |-> checked[i].type]
            Holds(i) == \E j \in DOMAIN scope_stack[i].function_defs :
                            Matches(scope_stack[i].function_defs[j], ident, types)
            holding == {i \in DOMAIN scope_stack : Holds(i)}
        IN  IF failing # {}
            THEN ret.result = checked[CHOOSE i \in failing : \A k \in failing : i <= k]
            ELSE IF holding = {}
            THEN ret.result = Err(FunctionNotInScope(ident, types))
            ELSE LET innermost == CHOOSE i \in holding : \A k \in holding : k <= i
                     defs == scope_stack[innermost].function_defs
                     matching == {j \in DOMAIN defs : Matches(defs[j], ident, types)}
                     def == defs[CHOOSE j \in matching : \A k \in matching : j <= k]
                 IN  ret.result = IF def.return_type.some
                                  THEN OkType(def.return_type.v)
                                  ELSE Err(VoidFunctionInExpr(ident, types))

\* A call of two arguments answered VoidFunctionInExpr by an inner definition
\* that shadows an outer one with a return type.
C16_Witness ==
    /\ ret.op = "check_expr"
    /\ ret.expr.kind = "FunctionCall"
    /\ Len(ret.expr.args) = 2
    /\ ~ret.result.ok
    /\ ret.result.failure.failure = "VoidFunctionInExpr"
    /\ \E i \in DOMAIN scope_stack : \E j \in DOMAIN scope_stack[i].function_defs :
          LET def == scope_stack[i].function_defs[j] IN
          /\ Matches(def, ret.expr.identifier, ret.result.failure.params)
          /\ def.return_type.some

\* C17: check_stmt of an If or a While succeeds only if the condition has
\* type Bool.  A condition of another type yields UnexpectedType expecting
\* Bool, and no scope is pushed and the block is not looked at.  With a Bool
\* condition a scope is pushed first, and the statements of the block are
\* checked in order on the stack with that empty scope on top: the first to
\* fail decides the failure.
C17_ConditionThenBlockInFreshScope ==
    ret.op = "check_stmt" =>
        LET before == SubSeq(scope_stack, 1, ret.entry_depth)
            cond == check_expr(before, ret.stmt.condition)
            block == ret.stmt.block
            fresh == Checker(Append(before, Scope(<<>>, <<>>)), <<>>)
            results == [i \in DOMAIN block |-> check_stmt(fresh, block[i]).result]
            failing == {i \in DOMAIN block : ~results[i].ok}
        IN  /\ ret.result.ok => cond = OkType("Bool")
            /\ (cond.ok /\ cond.type # "Bool") =>
                  /\ ret.result = Err(UnexpectedType("Bool", cond.type))
                  /\ trace = <<>>
                  /\ scope_stack = before
            /\ ~cond.ok => (ret.result = cond /\ trace = <<>> /\ scope_stack = before)
            /\ cond = OkType("Bool") =>
                  /\ trace # <<>>
                  /\ trace[1] = ret.entry_depth + 1
                  /\ IF failing = {} THEN ret.result.ok
                     ELSE ret.result =
                              results[CHOOSE i \in failing : \A k \in failing : i <= k]

\* A Bool condition over a block of two statements that fail differently.
C17_Witness ==
    /\ ret.op = "check_stmt"
    /\ Len(ret.stmt.block) = 2
    /\ ~ret.result.ok
    /\ trace # <<>>
    /\ LET fresh == Checker(Append(SubSeq(scope_stack, 1, ret.entry_depth),
                                   Scope(<<>>, <<>>)), <<>>)
           first == check_stmt(fresh, ret.stmt.block[1]).result
           second == check_stmt(fresh, ret.stmt.block[2]).result
       IN  ~first.ok /\ ~second.ok /\ first # second /\ ret.result = first

\* A next() call has returned or panicked.
NextCalled == ~panicked /\ <<stmts, item, yielded, panicked, scope_stack>>' #
                               <<stmts, item, yielded, panicked, scope_stack>>

\* C24: a next() call that finds a statement in the stream consumes exactly
\* that one and yields one more item, Ok carrying the statement when
\* check_stmt passes it and Err otherwise; a call that finds the stream
\* empty returns None.  So n statements give n items in their order, then
\* None.
C24_Step ==
    /\ (NextCalled /\ stmts > 0) =>
          /\ stmts' = stmts - 1
          /\ Len(yielded') = Len(yielded) + 1
          /\ item' = IF check_stmt(Self, input'.stmt).result.ok
                     THEN ItemOk(input'.stmt)
                     ELSE ItemErr(check_stmt(Self, input'.stmt).result.failure)
    /\ (NextCalled /\ stmts = 0) =>
          /\ ~panicked'
          /\ item' = ItemNone
          /\ UNCHANGED <<stmts, yielded>>

C24_OneItemPerStatementThenNone == [][C24_Step]_vars

\* C33: once next() has returned None at the end of the input, every further
\* call returns None again without panicking and leaves the scope stack
\* empty: the pop of the empty stack does nothing and the assertion that
\* the stack is empty holds again.
C33_Step ==
    (/\ item = ItemNone
     /\ <<ret, item, panicked, scope_stack>>' # <<ret, item, panicked, scope_stack>>)
    => /\ scope_stack = <<>>
       /\ scope_stack' = <<>>
       /\ ~panicked'
       /\ item' = ItemNone
       /\ ret' = ReturnedNone(NonesReturned + 1)
       /\ trace' = <<0>>

C33_NoneAgainAfterNone == [][C33_Step]_vars

\* Statements were yielded, then None, and None again on two further calls.
C33_Witness ==
    /\ yielded # <<>>
    /\ item = ItemNone
    /\ NonesReturned = 3
    /\ scope_stack = <<>>
    /\ ~panicked

\* The innermost scope holds a variable of the identifier with another type.
HeldWithAnotherType(stack, ident, var_type) ==
    /\ stack # <<>>
    /\ \E j \in DOMAIN stack[Len(stack)].variable_defs :
          /\ stack[Len(stack)].variable_defs[j].identifier = ident
          /\ stack[Len(stack)].variable_defs[j].var_type # var_type

\* C25: introduce_variable called with an identifier that the innermost
\* scope already holds with a different type leaves the scope's definitions
\* as they were (and reports VariableRedeclaredToDifferentType).
C25_Step ==
    (/\ ~panicked
     /\ ret'.op = "introduce_variable"
     /\ <<ret, scope_stack>>' # <<ret, scope_stack>>
     /\ HeldWithAnotherType(scope_stack, ret'.identifier, ret'.var_type))
    => scope_stack' = scope_stack

C25_RedeclarationLeavesDefinition == [][C25_Step]_vars

\* C31: check_expr, expect_expr_type, variable_lookup and function_lookup
\* leave the scope stack as it was, whether they return Ok or Err, and a
\* check_stmt call that returns Ok leaves the depth of the stack and the
\* definitions of every scope as they were before the call.
C31_Step ==
    /\ ret'.op \in {"check_expr", "expect_expr_type", "variable_lookup", "function_lookup"}
          => scope_stack' = scope_stack
    /\ (ret'.op = "check_stmt" /\ ret'.result.ok) => scope_stack' = scope_stack

C31_ScopeStackIsFramed == [][C31_Step]_vars

\* check_stmt has returned Ok for a statement with a nested block whose
\* condition is a variable found in a scope below the innermost one.
C31_Witness ==
    /\ ret.op = "check_stmt"
    /\ ret.result.ok
    /\ ret.stmt.condition = Variable("x")
    /\ ret.stmt.block # <<>>
    /\ Len(scope_stack) = 2
    /\ scope_stack[1].variable_defs = <<VariableDef("x", "Bool")>>
    /\ scope_stack[2].variable_defs = <<>>

(***************************************************************************)
(* Properties of the code generator's output.                              *)
(***************************************************************************)
\* The step is the processor running the instruction at cpu.ip.
Executes == cpu.status = "running" /\ cpu' # cpu

\* C19: when the `ret 16` of an epilogue runs with the return address of
\* its call on top of the stack, where the call pushed it (the body was
\* balanced and `pop rbp` has removed the saved frame pointer), the stack
\* pointer after the return is the one the call instruction started from.
C19_Step ==
    (/\ Executes
     /\ output.v[cpu.ip].op = "Ret"
     /\ output.v[cpu.ip].bytes = 16
     /\ output.v[cpu.ip - 1] = Pop(Register("BasePointer"))
     /\ LoadQword(cpu.mem, cpu.rsp).kind = "ret"
     /\ LoadQword(cpu.mem, cpu.rsp).n # 0
     /\ LoadQword(cpu.mem, cpu.rsp).m = cpu.rsp + 8)
    => cpu'.rsp = LoadQword(cpu.mem, cpu.rsp).m

C19_EpilogueRestoresStackPointer == [][C19_Step]_vars

\* The stack effect of an IR instruction, in bytes the stack pointer moves.
StackEffect(instruction) ==
    CASE instruction.ir = "Push" -> 0 - 8
      [] instruction.ir \in {"Store", "JumpIfTrue", "JumpIfFalse", "Display"} -> 8
      [] instruction.ir \in {"Add", "Subtract", "Multiply", "Divide",
                             "GreaterThan", "LessThan", "Equals"} -> 8
      [] instruction.ir \in {"Not", "Label", "Jump"} -> 0

LeavesOneResult(instruction) ==
    instruction.ir \in {"Add", "Subtract", "Multiply", "Divide",
                        "GreaterThan", "LessThan", "Equals"}

\* C20: when the processor has run the last of the instructions emitted for
\* a Push, Store, JumpIfTrue, JumpIfFalse, Display, Add, Subtract, Multiply,
\* Divide, GreaterThan, LessThan, Equals, Not, Label or Jump, the stack
\* pointer is its stack effect away from where it was when the first of
\* them began, and an arithmetic or comparison instruction has written its
\* result to the new [rsp].
C20_Step ==
    (/\ Executes
     /\ cpu'.status # "fault"
     /\ LastOfItsInstruction(cpu.ip)
     /\ ir[EmittedFor(cpu.ip)].ir \in
            {"Push", "Store", "JumpIfTrue", "JumpIfFalse", "Display", "Add", "Subtract",
             "Multiply", "Divide", "GreaterThan", "LessThan", "Equals", "Not", "Label",
             "Jump"})
    => /\ cpu'.rsp - cpu'.segment_rsp = StackEffect(ir[EmittedFor(cpu.ip)])
       /\ LeavesOneResult(ir[EmittedFor(cpu.ip)]) => cpu'.written = {cpu'.rsp}

C20_StackEffectOfEachInstruction == [][C20_Step]_vars

IsSection(line) == line.op = "Section"

\* The lines of the output that are section headers, in order.
SectionHeaders(program) == SelectSeq(program, IsSection)

\* The section line i of the output lies in: 1 for .text, 2 for .bss, 3 for
\* .rodata (0 before the first header).
SectionOf(program, i) == Cardinality({j \in 1..i : program[j].op = "Section"})

HeaderOf(program, name) == CHOOSE i \in 1..Len(program) : program[i] = Section(name)

\* Three sections .text, .bss, .rodata in this order, one header each;
\* `mov rax, 0` and `ret 0` end .text; .rodata declares the display_char
\* format string once, under its label.
C21_Sections(program) ==
    /\ SectionHeaders(program) = <<Section("text"), Section("bss"), Section("rodata")>>
    /\ program[HeaderOf(program, "bss") - 2] = Mov(Register("Rax"), OprandValue(ValInt(0)))
    /\ program[HeaderOf(program, "bss") - 1] = Ret(0)
    /\ \E i \in 1..Len(program) :
          /\ {j \in 1..Len(program) : program[j].op = "DeclareString"} = {i}
          /\ SectionOf(program, i) = 3
          /\ program[i - 1] = Label(display_char)

\* Within each section the lines emitted for an earlier IR instruction come
\* before those emitted for a later one.
C21_InOrderWithinEachSection(program) ==
    \E marks \in {construct_output(emitted_by)} :
        \A a, b \in 1..Len(program) :
            (/\ 0 < EmittedForIn(marks, a)
             /\ EmittedForIn(marks, a) < EmittedForIn(marks, b)
             /\ SectionOf(program, a) = SectionOf(program, b))
            => a < b

\* Over the whole output the lines emitted for an earlier IR instruction
\* come before those emitted for a later one.
C21_InOrderOverTheOutput(program) ==
    \E marks \in {construct_output(emitted_by)} :
        \A a, b \in 1..Len(program) :
            (0 < EmittedForIn(marks, a) /\ EmittedForIn(marks, a) < EmittedForIn(marks, b))
            => a < b

\* C21 (as amended): the output has the three sections .text, .bss, .rodata
\* in this order, each under one header; within each section the lines
\* emitted for IR instruction i precede those emitted for instruction j
\* whenever i < j; `mov rax, 0` and `ret 0` are the last two lines of .text
\* and the display_char format string is declared once, in .rodata.
C21_Step ==
    (output = None /\ output' # None) =>
        C21_Sections(output'.v) /\ C21_InOrderWithinEachSection(output'.v)

C21_OutputLayout == [][C21_Step]_vars

\* C21 (as stated): the same, with the lines emitted for instruction i
\* preceding those emitted for instruction j over the whole output.
C21_StepAsStated ==
    (output = None /\ output' # None) =>
        C21_Sections(output'.v) /\ C21_InOrderOverTheOutput(output'.v)

C21_OutputLayoutInOrderOverall == [][C21_StepAsStated]_vars

\* An output with lines of two IR instructions in .text and lines of an
\* instruction in .bss or .rodata.
C21_Witness ==
    /\ output # None
    /\ cpu.status = "off"
    /\ \E a, b \in 1..Len(output.v) :
          /\ SectionOf(output.v, a) = 1 /\ SectionOf(output.v, b) = 1
          /\ 0 < EmittedFor(a) /\ EmittedFor(a) < EmittedFor(b)
    /\ \E c \in 1..Len(output.v) : SectionOf(output.v, c) > 1 /\ EmittedFor(c) > 0

IsPushNum(instruction) == instruction.ir = "Push" /\ instruction.val.value = "Num"

\* How many of the first n instructions of ir are Push(Num).
PushNumsIn(n) == Cardinality({i \in 1..n : IsPushNum(ir[i])})

\* The lines of a section that were emitted for instruction i of ir.
LinesFor(section, marks, i) ==
    [j \in 1..Cardinality({x \in 1..Len(section) : marks[x].for = i}) |->
        section[CHOOSE x \in 1..Len(section) :
                    /\ marks[x].for = i
                    /\ Cardinality({y \in 1..x : marks[y].for = i}) = j]]

\* C22: when i instructions have been handled, num_label_counter is the
\* number of Push(Num) among them, and each Push(Num v) that k Push(Num)
\* came before has emitted the one line `push qword [literal{k}]` to .text
\* and the two lines `literal{k}:` and `dq v` to .rodata, where no other
\* line defines literal{k}.
C22_LiteralsNumberedFromZero ==
    gen # [text_section |-> <<>>] =>
        /\ gen.num_label_counter = PushNumsIn(handled)
        /\ \A i \in 1..handled :
              IsPushNum(ir[i]) =>
                 /\ LinesFor(gen.text_section, emitted_by.text_section, i)
                      = <<Push(Address(OprandLabel(literal_label(PushNumsIn(i - 1)))))>>
                 /\ LinesFor(gen.rodata_section, emitted_by.rodata_section, i)
                      = <<Label(literal_label(PushNumsIn(i - 1))),
                          Declare(ValFloat(ir[i].val.num))>>
                 /\ Cardinality(definitions_of(construct_output(gen),
                                               literal_label(PushNumsIn(i - 1)))) = 1

\* Two Push(Num) of different values have been handled, with another
\* instruction between them.
C22_Witness ==
    /\ handled = 3
    /\ IsPushNum(ir[1]) /\ ~IsPushNum(ir[2]) /\ IsPushNum(ir[3])
    /\ ir[1].val.num # ir[3].val.num
    /\ gen.num_label_counter = 2

\* Every jump of the IR vector has its Label and every call its Function.
Resolved(instructions) ==
    \A i \in 1..Len(instructions) :
        /\ instructions[i].ir \in {"Jump", "JumpIfTrue", "JumpIfFalse"} =>
              \E j \in 1..Len(instructions) : instructions[j] = IrLabel(instructions[i].id)
        /\ instructions[i].ir \in {"CallExpectingVoid", "CallExpectingValue"} =>
              \E j \in 1..Len(instructions) : instructions[j] = IrFunction(instructions[i].id)

\* The lines of .text that jump or call, other than to printf.
JumpsAndCalls(program) ==
    {i \in 1..Len(program) :
        /\ SectionOf(program, i) = 1
        /\ program[i].op \in {"Jmp", "Je", "Jne", "Call"}
        /\ program[i].label # printf}

TargetsDefinedInText(program) ==
    \A i \in JumpsAndCalls(program) :
        \E d \in definitions_of(program, program[i].label) : SectionOf(program, d) = 1

\* The labels of the numbered namespaces for the ids 0..MaxId, and the two
\* fixed labels: as many labels as there are names.
NamespacesNeverCoincide ==
    Cardinality({label(id) : id \in 0..MaxId} \cup {func_label(id) : id \in 0..MaxId}
                \cup {var_label(id) : id \in 0..MaxId}
                \cup {literal_label(n) : n \in 0..MaxId}
                \cup {main, display_char})
        = (4 * (MaxId + 1)) + 2

\* C23: when every jump of the IR vector has its Label and every call its
\* Function, every jmp, je, jne and call of the output's .text, other than
\* the call of printf, names a label that a line of .text defines, before
\* or after it; and label{id}, func{id}, var{id}, literal{n}, main and
\* display_char are different labels.
C23_Step ==
    (output = None /\ output' # None) =>
        /\ Resolved(ir) => TargetsDefinedInText(output'.v)
        /\ NamespacesNeverCoincide

C23_LabelResolutionPreserved == [][C23_Step]_vars

\* An output whose .text jumps to a label from before its definition and
\* from after it.
C23_Witness ==
    /\ output # None
    /\ cpu.status = "off"
    /\ Resolved(ir)
    /\ \E i \in JumpsAndCalls(output.v) :
          \E d \in definitions_of(output.v, output.v[i].label) : d > i
    /\ \E i \in JumpsAndCalls(output.v) :
          \E d \in definitions_of(output.v, output.v[i].label) : d < i

\* Bit n of a status word.
Bit(sw, n) == (sw \div Pow2(n)) % 2

\* The comparison has run to its last line.
ComparisonStored == cpu.status = "comparing" /\ handled = Len(gen.text_section)

\* C28: whatever status word fstsw leaves in ax, GreaterThan stores 1 at
\* [rsp] if bit 8 of it is set and 0 otherwise, LessThan stores 1 if bits 8
\* and 14 are both clear and 0 otherwise; the qword stored is exactly 0 or
\* 1 whatever the other bits of ax, bx and the upper bits of rax were.
C28_ComparisonStoresOneBit ==
    ComparisonStored =>
        /\ ir = <<IrOp("GreaterThan")>> => cpu.top = <<Bit(cpu.sw, 8), 0, 0, 0>>
        /\ ir = <<IrOp("LessThan")>> =>
              cpu.top = <<IF Bit(cpu.sw, 8) = 0 /\ Bit(cpu.sw, 14) = 0 THEN 1 ELSE 0, 0, 0, 0>>

\* LessThan has stored 1 although every bit of the status word other than
\* bits 8 and 14 was set and rax, rbx and [rsp] had all their bits set.
C28_Witness ==
    /\ ComparisonStored
    /\ ir = <<IrOp("LessThan")>>
    /\ cpu.sw = (WordValues - 1) - Pow2(8) - Pow2(14)
    /\ cpu.Rbx[4] = WordValues - 1
    /\ cpu.top = <<1, 0, 0, 0>>

(***************************************************************************)
(* Properties of the lexer.                                                *)
(***************************************************************************)
MatchingTransitions(transitions, chr) ==
    {i \in DOMAIN transitions : should_transition(transitions[i].match_by, chr)}

\* The initial state has a transition that accepts chr.
InitialAccepts(chr) ==
    MatchingTransitions(lxr.states[lxr.initial_state_key].transitions, chr) # {}

Returned == pc = "ready" /\ step.kind = "return"
ReturnedErr == Returned /\ lex_item.returned = "Some" /\ ~lex_item.result.ok

\* The call that has just returned followed one that returned Err.
ReturnedAfterErr ==
    /\ Returned
    /\ IF lex_item.returned = "None"
       THEN tokens # <<>> /\ ~tokens[Len(tokens)].ok
       ELSE Len(tokens) >= 2 /\ ~tokens[Len(tokens) - 1].ok

\* C4: a lex error does not poison the tokens after it: the character that
\* stopped the failed attempt is still the one peek() returns, and the call
\* that follows starts at it, in the initial state, with an empty lexeme.
C4_ErrLeavesStoppingCharUnconsumed ==
    /\ ReturnedErr =>
          IF lex_item.result.failure = "UnexpectedChar"
          THEN Peeked = Some(lex_item.result.chr)
          ELSE ~Peeked.some
    /\ (step.kind = "call" /\ lex_item.returned = "Some" /\ ~lex_item.result.ok) =>
          /\ current_key = lxr.initial_state_key
          /\ lexeme = <<>>
          /\ unexpected_char = None
          /\ get_pos(strm) = step.pos
          /\ lex_item.result.failure = "UnexpectedChar" => Peeked = Some(lex_item.result.chr)

\* An Err, then an Ok token whose lexeme starts with the character that
\* stopped the failed attempt.
C4_Witness ==
    \E i \in DOMAIN tokens :
        /\ i < Len(tokens)
        /\ ~tokens[i].ok
        /\ tokens[i].failure = "UnexpectedChar"
        /\ tokens[i + 1].ok
        /\ tokens[i + 1].lexeme[1] = tokens[i].chr

\* C5, as stated: once next() has returned Err the iterator consumes no
\* further input and every later call returns None.
C5_ErrIsTerminal ==
    \A i \in DOMAIN tokens :
        ~tokens[i].ok => (i = Len(tokens) /\ get_pos(strm) = tokens[i].pos)

\* The position the attempt that began at start first finds a character at
\* that the initial state does not skip (the end of the input if none).
FirstUnskipped(start) ==
    LET chars == strm.chars
        Skipped(q) == Contains(lxr.ignored, chars[q]) /\ ~InitialAccepts(chars[q])
    IN  CHOOSE p \in start..Len(chars) :
            /\ \A q \in (start + 1)..p : Skipped(q)
            /\ p = Len(chars) \/ ~Skipped(p + 1)

\* C5, amended: the iterator keeps no error state.  The call after an Err
\* starts again in the initial state at the first unconsumed character and
\* skips what the initial state ignores; it returns None, consuming nothing
\* more, only if the input ends there or the initial state has no transition
\* for the character there, and otherwise consumes it and returns Some.
C5_NextAfterErrIsFreshAttempt ==
    ReturnedAfterErr =>
        LET first == FirstUnskipped(step.start) IN
        IF first = Len(strm.chars) \/ ~InitialAccepts(strm.chars[first + 1])
        THEN lex_item = LexNone /\ get_pos(strm) = first
        ELSE /\ lex_item.returned = "Some"
             /\ get_pos(strm) > first
             /\ lex_item.result.lexeme[1] = strm.chars[first + 1]

\* A call after an Err that consumed input and returned Some.
C5_Witness ==
    /\ ReturnedAfterErr
    /\ lex_item.returned = "Some"
    /\ get_pos(strm) > tokens[Len(tokens) - 1].pos

\* C6: next() returns None only once the stream is fully consumed.
C6_NoneOnlyAtEndOfStream ==
    (Returned /\ lex_item = LexNone) => ~Peeked.some

LoopStep == step.kind \in {"transition", "ignore", "break"}

\* C7: the transitions are consulted in list order and the first that accepts
\* the peeked character wins: the new key is its destination (the current key
\* for ToSelf), no key is returned exactly when none accepts it, and on a
\* match that one character is appended and the stream advances by one.
C7_FirstMatchingTransitionWins ==
    LoopStep =>
        LET transitions == lxr.states[step.key].transitions
            matching == MatchingTransitions(transitions, step.chr)
        IN  IF matching = {}
            THEN step.kind # "transition" /\ lexeme = step.lexeme /\ current_key = step.key
            ELSE LET first == CHOOSE i \in matching : \A k \in matching : i <= k IN
                 /\ step.kind = "transition"
                 /\ current_key = IF transitions[first].to.dest = "To"
                                  THEN transitions[first].to.key ELSE step.key
                 /\ lexeme = Append(step.lexeme, step.chr)
                 /\ get_pos(strm) = step.pos + 1

\* A character accepted by two transitions that lead to different states.
C7_Witness ==
    /\ step.kind = "transition"
    /\ LET transitions == lxr.states[step.key].transitions IN
       \E i, k \in MatchingTransitions(transitions, step.chr) :
           i < k /\ transitions[i].to # transitions[k].to

\* C8: a character is skipped exactly when it is ignored, no transition of the
\* current state accepts it and the current state is the initial one; an
\* ignored character that no transition accepts in another state ends the
\* attempt, and one that a transition accepts is appended.
C8_IgnoredOnlyInInitialState ==
    LoopStep =>
        LET matched == MatchingTransitions(lxr.states[step.key].transitions, step.chr) # {}
            ignored == Contains(lxr.ignored, step.chr)
        IN  /\ step.kind = "ignore" <=>
                  (ignored /\ ~matched /\ step.key = lxr.initial_state_key)
            /\ step.kind = "ignore" =>
                  /\ get_pos(strm) = step.pos + 1
                  /\ lexeme = step.lexeme
                  /\ current_key = step.key
                  /\ pc = "loop"
            /\ (ignored /\ ~matched /\ step.key # lxr.initial_state_key) =>
                  /\ step.kind = "break"
                  /\ pc = "finish"
                  /\ unexpected_char = Some(step.chr)
                  /\ get_pos(strm) = step.pos
                  /\ lexeme = step.lexeme
            /\ (ignored /\ matched) =>
                  /\ step.kind = "transition"
                  /\ lexeme = Append(step.lexeme, step.chr)

\* An ignored character ends an attempt outside the initial state.
C8_Witness ==
    /\ step.kind = "break"
    /\ Contains(lxr.ignored, step.chr)
    /\ step.key # lxr.initial_state_key
    /\ lexeme # <<>>

\* C9: an attempt with a lexeme that ends in a state of parse policy Invalid
\* yields Err: UnexpectedChar of the character that stopped it and is still
\* to be read, UnexpectedEof if the stream ended; in a state of policy To or
\* ByFunction it yields Ok, stopped by a character or not.
C9_ParsePolicyDecidesResult ==
    (Returned /\ lex_item.returned = "Some") =>
        LET final == lxr.states[current_key]
            result == lex_item.result
        IN  /\ lexeme # <<>>
            /\ unexpected_char.some => Peeked = unexpected_char
            /\ ~unexpected_char.some => ~Peeked.some
            /\ final.parse.parse = "Invalid" =>
                  result = IF unexpected_char.some
                           THEN UnexpectedChar(unexpected_char.v, lexeme, get_pos(strm))
                           ELSE UnexpectedEof(lexeme, get_pos(strm))
            /\ final.parse.parse \in {"To", "ByFunction"} =>
                  /\ result.ok
                  /\ result.lexeme = lexeme
                  /\ result.pos = get_pos(strm)

\* An Ok token, then an attempt that a character stopped in a state of
\* policy Invalid.
C9_Witness ==
    /\ Returned
    /\ lex_item.returned = "Some"
    /\ lxr.states[current_key].parse.parse = "Invalid"
    /\ unexpected_char.some
    /\ lex_item.result = UnexpectedChar(unexpected_char.v, lexeme, get_pos(strm))
    /\ \E i \in DOMAIN tokens : tokens[i].ok

\* The position of the first character of the lexeme of the call that has
\* just returned Some: from the position the call began at, the first
\* character that a transition of the initial state accepts.
FirstCharacterPos ==
    CHOOSE p \in step.start..(Len(strm.chars) - 1) :
        /\ transition_state(lxr.initial_state_key,
                            lxr.states[lxr.initial_state_key].transitions,
                            strm.chars[p + 1]).some
        /\ \A q \in step.start..(p - 1) :
              ~transition_state(lxr.initial_state_key,
                                lxr.states[lxr.initial_state_key].transitions,
                                strm.chars[q + 1]).some

\* C26: the position carried by a yielded LexToken or LexFailure is the
\* stream position of the first character of its lexeme, not the position
\* reached once the lexeme has been consumed.
C26_PositionOfFirstCharacter ==
    (Returned /\ lex_item.returned = "Some") =>
        lex_item.result.pos = FirstCharacterPos

\* The characters a transition of the state of the key accepts.
Accepted(key) ==
    {chr \in Alphabet : transition_state(key, lxr.states[key].transitions, chr).some}

\* The yielded lexeme lies in the input just before the position reached,
\* between two characters that its final state does not accept.
MaximalRun(result) ==
    LET last == get_pos(strm)
        first == last - Len(result.lexeme) + 1
    IN  /\ first >= 1
        /\ result.lexeme = SubSeq(strm.chars, first, last)
        /\ \A i \in first..last : strm.chars[i] \in Accepted(current_key)
        /\ first > 1 => strm.chars[first - 1] \notin Accepted(current_key)
        /\ last < Len(strm.chars) => strm.chars[last + 1] \notin Accepted(current_key)

TokensOf(results) ==
    [i \in DOMAIN results |->
        IF results[i].ok THEN <<results[i].token, results[i].lexeme>> ELSE <<"Err">>]

\* C27: tokens are maximal.  The loop of an attempt is left only when the
\* stream has ended or no transition of the current state accepts the
\* peeked character; with runs of letters and runs of digits configured and
\* whitespace ignored every yielded lexeme is a maximal run, and three
\* letters, a space and two digits yield the identifier of the three
\* letters, the number of the two digits, and then None.
C27_TokensAreMaximal ==
    /\ (pc = "finish" /\ CurrentState.some) => (~Peeked.some \/ ~Transitioned.some)
    /\ (lxr = RunsLexer /\ Returned /\ lex_item.returned = "Some") =>
          /\ lex_item.result.ok
          /\ MaximalRun(lex_item.result)
    /\ (lxr = RunsLexer /\ strm.chars = LettersSpaceDigits /\ Returned) =>
          /\ lex_item.returned = "None" => Len(tokens) = 2
          /\ Len(tokens) <= 2
          /\ Len(tokens) = 2 =>
                TokensOf(tokens) =
                    << <<ParseFunction("Identifier", <<"a", "a", "a">>), <<"a", "a", "a">> >>,
                       <<ParseFunction("NumberLiteral", <<"1", "1">>), <<"1", "1">> >> >>

\* The three letters, the space and the two digits have been lexed and the
\* third call has returned None.
C27_Witness ==
    /\ lxr = RunsLexer
    /\ strm.chars = LettersSpaceDigits
    /\ Returned
    /\ lex_item.returned = "None"
    /\ Len(tokens) = 2
    /\ tokens[1].lexeme = <<"a", "a", "a">>
    /\ tokens[2].lexeme = <<"1", "1">>
    /\ ~Peeked.some

\* An iteration of the loop of next(): the stream is one character further
\* and the loop goes on, or the stream is where it was and the loop is left.
C29_Iteration ==
    pc = "loop" =>
        \/ /\ pc' = "loop"
           /\ get_pos(strm') = get_pos(strm) + 1
        \/ /\ pc' \in {"finish", "panicked"}
           /\ strm' = strm

\* A call that returned Some began at an earlier position than it ended at;
\* no more items have been yielded than characters consumed.
C29_Consumed ==
    /\ (Returned /\ lex_item.returned = "Some") => get_pos(strm) > step.start
    /\ Len(tokens) <= get_pos(strm)
    /\ get_pos(strm) <= Len(strm.chars)

\* C29: every call of next() on a finite stream terminates; each iteration
\* of its loop either advances the stream by one character or ends the
\* attempt; a call that returns Some has consumed at least one character,
\* so that the items yielded are at most as many as the characters of the
\* input.
C29_NextTerminates ==
    /\ [][C29_Iteration]_vars
    /\ []C29_Consumed
    /\ (pc = "loop") ~> (pc \in {"ready", "panicked"})

\* The stream has ended, None has been returned, and as many items were
\* yielded as the input has characters, after a call that skipped over
\* ignored characters.
C29_Witness ==
    /\ Returned
    /\ lex_item.returned = "None"
    /\ ~Peeked.some
    /\ Len(tokens) >= 2
    /\ \E i \in DOMAIN strm.chars : Contains(lxr.ignored, strm.chars[i])
    /\ Len(tokens) + 1 = Len(strm.chars)

\* The lexemes of the items, one after the other.
RECURSIVE Lexemes(_)
Lexemes(results) ==
    IF results = <<>> THEN <<>>
    ELSE Lexemes(SubSeq(results, 1, Len(results) - 1)) \o results[Len(results)].lexeme

\* The first n characters without those at the positions skipped.
RECURSIVE Kept(_, _, _)
Kept(chars, n, skipped) ==
    IF n = 0 THEN <<>>
    ELSE IF (n - 1) \in skipped THEN Kept(chars, n - 1, skipped)
    ELSE Append(Kept(chars, n - 1, skipped), chars[n])

\* C30: no character is lost, duplicated or reordered: between calls of
\* next() the lexemes of the items yielded so far, tokens and failures
\* alike, make up the consumed prefix of the input without the characters
\* that were skipped, each of them an ignored character that no transition of
\* the initial state accepts.
C30_LexemesAreTheConsumedInput ==
    pc = "ready" =>
        /\ Lexemes(tokens) = Kept(strm.chars, get_pos(strm), step.skipped)
        /\ \A p \in step.skipped :
              /\ p < get_pos(strm)
              /\ can_ignore(lxr, lxr.initial_state_key, strm.chars[p + 1])
              /\ ~transition_state(lxr.initial_state_key,
                                   lxr.states[lxr.initial_state_key].transitions,
                                   strm.chars[p + 1]).some

\* The input has been consumed to its end, with a character skipped, a
\* failure and a token yielded.
C30_Witness ==
    /\ pc = "ready"
    /\ ~Peeked.some
    /\ step.skipped # {}
    /\ \E i \in DOMAIN tokens : tokens[i].ok
    /\ \E i \in DOMAIN tokens : ~tokens[i].ok
    /\ Len(Lexemes(tokens)) + Cardinality(step.skipped) = Len(strm.chars)

\* The keys that Dest::To destinations lead to from the states of the keys.
DestinationsOf(lexer, keys) ==
    UNION {{lexer.states[k].transitions[i].to.key :
                i \in {j \in DOMAIN lexer.states[k].transitions :
                          lexer.states[k].transitions[j].to.dest = "To"}} :
           k \in keys \cap DOMAIN lexer.states}

RECURSIVE ReachableFrom(_, _)
ReachableFrom(lexer, keys) ==
    IF DestinationsOf(lexer, keys) \subseteq keys THEN keys
    ELSE ReachableFrom(lexer, keys \cup DestinationsOf(lexer, keys))

\* The initial state key and every key reachable from it are in the map.
ReachableKeysPresent(lexer) ==
    ReachableFrom(lexer, {lexer.initial_state_key}) \subseteq DOMAIN lexer.states

\* C32: if the initial state key and the key of every Dest::To destination
\* reachable from it are present in the state map, no next() call reaches
\* the panic of get_state, whatever the input, and the current state key
\* is a key of the map at every step.
C32_NoUndefinedState ==
    ReachableKeysPresent(lxr) =>
        /\ pc # "panicked"
        /\ current_key \in DOMAIN lxr.states

\* A token has been yielded, and the input read to its end, by a lexer
\* whose map holds a state with a missing destination that is out of reach.
C32_Witness ==
    /\ ReachableKeysPresent(lxr)
    /\ \E k \in DOMAIN lxr.states : DestinationsOf(lxr, {k}) \ DOMAIN lxr.states # {}
    /\ Returned
    /\ lex_item.returned = "Some"
    /\ lex_item.result.ok
    /\ current_key # lxr.initial_state_key
    /\ ~Peeked.some

====
